---- MODULE Spec2Model ----
(***************************************************************************)
(* Model of the cf command-line client: one command invocation, from the   *)
(* parsed command line through configuration loading, zone resolution, the *)
(* record operation and the rendering of its result.                       *)
(*                                                                         *)
(* Strings the code inspects character by character (zone arguments and    *)
(* error messages) are sequences of character codes; strings the code only *)
(* compares or passes on (flag values, record fields) are TLA+ strings.    *)
(***************************************************************************)
EXTENDS Integers, Sequences, FiniteSets, TLC

(***************************************************************************)
(* Text constants, as character codes.                                     *)
(***************************************************************************)
\* ExampleID = '023e105f4ecef8ad9ca31a8372d0c353'
ExampleID ==
  <<48, 50, 51, 101, 49, 48, 53, 102, 52, 101, 99, 101, 102, 56, 97, 100, 57, 99, 97, 51, 49, 97, 56, 51, 55, 50, 100, 48, 99, 51, 53, 51>>
\* OtherID = '372e67954025e0ba6aaa6d586b9e0b59'
OtherID ==
  <<51, 55, 50, 101, 54, 55, 57, 53, 52, 48, 50, 53, 101, 48, 98, 97, 54, 97, 97, 97, 54, 100, 53, 56, 54, 98, 57, 101, 48, 98, 53, 57>>
\* ThirdID = '9a7806061c88ada191ed06f989cc3dac'
ThirdID ==
  <<57, 97, 55, 56, 48, 54, 48, 54, 49, 99, 56, 56, 97, 100, 97, 49, 57, 49, 101, 100, 48, 54, 102, 57, 56, 57, 99, 99, 51, 100, 97, 99>>
\* ExampleName = 'ex.co'
ExampleName ==
  <<101, 120, 46, 99, 111>>
\* MissingName = 'no.co'
MissingName ==
  <<110, 111, 46, 99, 111>>
\* ErrNoCredentials = 'no credentials configured. Set CLOUDFLARE_API_TOKEN or CLOUDFLARE_API_KEY + CLOUDFLARE_API_EMAIL'
ErrNoCredentials ==
  <<110, 111, 32, 99, 114, 101, 100, 101, 110, 116, 105, 97, 108, 115, 32, 99, 111, 110, 102, 105, 103, 117, 114, 101, 100, 46, 32, 83, 101, 116, 32, 67, 76, 79, 85, 68, 70, 76, 65, 82, 69, 95, 65, 80, 73, 95, 84, 79, 75, 69, 78, 32, 111, 114, 32, 67, 76, 79, 85, 68, 70, 76, 65, 82, 69, 95, 65, 80, 73, 95, 75, 69, 89, 32, 43, 32, 67, 76, 79, 85, 68, 70, 76, 65, 82, 69, 95, 65, 80, 73, 95, 69, 77, 65, 73, 76>>
\* ErrZonePermissionPrefix = 'permission denied when looking up zone by name.\n\nThis usually happens when your API token is scoped to specific zones.\nTo fix this, either:\n  1. Use the zone ID directly: cf zones get <zone-id>\n  2. Grant your token "All zones" read permission\n\nError: '
ErrZonePermissionPrefix ==
  <<112, 101, 114, 109, 105, 115, 115, 105, 111, 110, 32, 100, 101, 110, 105, 101, 100, 32, 119, 104, 101, 110, 32, 108, 111, 111, 107, 105, 110, 103, 32, 117, 112, 32, 122, 111, 110, 101, 32, 98, 121, 32, 110, 97, 109, 101, 46, 10, 10, 84, 104, 105, 115, 32, 117, 115, 117, 97, 108, 108, 121, 32, 104, 97, 112, 112, 101, 110, 115, 32, 119, 104, 101, 110, 32, 121, 111, 117, 114, 32, 65, 80, 73, 32, 116, 111, 107, 101, 110, 32, 105, 115, 32, 115, 99, 111, 112, 101, 100, 32, 116, 111, 32, 115, 112, 101, 99, 105, 102, 105, 99, 32, 122, 111, 110, 101, 115, 46, 10, 84, 111, 32, 102, 105, 120, 32, 116, 104, 105, 115, 44, 32, 101, 105, 116, 104, 101, 114, 58, 10, 32, 32, 49, 46, 32, 85, 115, 101, 32, 116, 104, 101, 32, 122, 111, 110, 101, 32, 73, 68, 32, 100, 105, 114, 101, 99, 116, 108, 121, 58, 32, 99, 102, 32, 122, 111, 110, 101, 115, 32, 103, 101, 116, 32, 60, 122, 111, 110, 101, 45, 105, 100, 62, 10, 32, 32, 50, 46, 32, 71, 114, 97, 110, 116, 32, 121, 111, 117, 114, 32, 116, 111, 107, 101, 110, 32, 34, 65, 108, 108, 32, 122, 111, 110, 101, 115, 34, 32, 114, 101, 97, 100, 32, 112, 101, 114, 109, 105, 115, 115, 105, 111, 110, 10, 10, 69, 114, 114, 111, 114, 58, 32>>
\* ErrZoneNotFoundPrefix = 'zone not found: '
ErrZoneNotFoundPrefix ==
  <<122, 111, 110, 101, 32, 110, 111, 116, 32, 102, 111, 117, 110, 100, 58, 32>>
\* ErrListZonesPermissionPrefix = "permission denied: your API token may not have 'Zone:Read' permission for all zones. "
ErrListZonesPermissionPrefix ==
  <<112, 101, 114, 109, 105, 115, 115, 105, 111, 110, 32, 100, 101, 110, 105, 101, 100, 58, 32, 121, 111, 117, 114, 32, 65, 80, 73, 32, 116, 111, 107, 101, 110, 32, 109, 97, 121, 32, 110, 111, 116, 32, 104, 97, 118, 101, 32, 39, 90, 111, 110, 101, 58, 82, 101, 97, 100, 39, 32, 112, 101, 114, 109, 105, 115, 115, 105, 111, 110, 32, 102, 111, 114, 32, 97, 108, 108, 32, 122, 111, 110, 101, 115, 46, 32>>
\* ErrListPrefix = 'failed to list DNS records: '
ErrListPrefix ==
  <<102, 97, 105, 108, 101, 100, 32, 116, 111, 32, 108, 105, 115, 116, 32, 68, 78, 83, 32, 114, 101, 99, 111, 114, 100, 115, 58, 32>>
\* ErrGetPrefix = 'failed to get DNS record: '
ErrGetPrefix ==
  <<102, 97, 105, 108, 101, 100, 32, 116, 111, 32, 103, 101, 116, 32, 68, 78, 83, 32, 114, 101, 99, 111, 114, 100, 58, 32>>
\* ErrCreatePrefix = 'failed to create DNS record: '
ErrCreatePrefix ==
  <<102, 97, 105, 108, 101, 100, 32, 116, 111, 32, 99, 114, 101, 97, 116, 101, 32, 68, 78, 83, 32, 114, 101, 99, 111, 114, 100, 58, 32>>
\* ErrUpdatePrefix = 'failed to update DNS record: '
ErrUpdatePrefix ==
  <<102, 97, 105, 108, 101, 100, 32, 116, 111, 32, 117, 112, 100, 97, 116, 101, 32, 68, 78, 83, 32, 114, 101, 99, 111, 114, 100, 58, 32>>
\* ErrDeletePrefix = 'failed to delete DNS record: '
ErrDeletePrefix ==
  <<102, 97, 105, 108, 101, 100, 32, 116, 111, 32, 100, 101, 108, 101, 116, 101, 32, 68, 78, 83, 32, 114, 101, 99, 111, 114, 100, 58, 32>>
\* ErrCreateRequired = '--type, --name, and --content are required'
ErrCreateRequired ==
  <<45, 45, 116, 121, 112, 101, 44, 32, 45, 45, 110, 97, 109, 101, 44, 32, 97, 110, 100, 32, 45, 45, 99, 111, 110, 116, 101, 110, 116, 32, 97, 114, 101, 32, 114, 101, 113, 117, 105, 114, 101, 100>>
\* ErrProxiedValue = "--proxied must be 'true' or 'false'"
ErrProxiedValue ==
  <<45, 45, 112, 114, 111, 120, 105, 101, 100, 32, 109, 117, 115, 116, 32, 98, 101, 32, 39, 116, 114, 117, 101, 39, 32, 111, 114, 32, 39, 102, 97, 108, 115, 101, 39>>
\* ErrFindRequired = 'at least one of --name or --type is required'
ErrFindRequired ==
  <<97, 116, 32, 108, 101, 97, 115, 116, 32, 111, 110, 101, 32, 111, 102, 32, 45, 45, 110, 97, 109, 101, 32, 111, 114, 32, 45, 45, 116, 121, 112, 101, 32, 105, 115, 32, 114, 101, 113, 117, 105, 114, 101, 100>>
\* ErrUnknownFlagComment = 'unknown flag: --comment'
ErrUnknownFlagComment ==
  <<117, 110, 107, 110, 111, 119, 110, 32, 102, 108, 97, 103, 58, 32, 45, 45, 99, 111, 109, 109, 101, 110, 116>>
\* ErrUnknownConfigKeyPrefix = 'unknown config key: '
ErrUnknownConfigKeyPrefix ==
  <<117, 110, 107, 110, 111, 119, 110, 32, 99, 111, 110, 102, 105, 103, 32, 107, 101, 121, 58, 32>>
\* ErrInvalidFormatPrefix = 'invalid output_format: '
ErrInvalidFormatPrefix ==
  <<105, 110, 118, 97, 108, 105, 100, 32, 111, 117, 116, 112, 117, 116, 95,
    102, 111, 114, 109, 97, 116, 58, 32>>
\* ErrInvalidFormatSuffix = ' (must be 'table' or 'json')'
ErrInvalidFormatSuffix ==
  <<32, 40, 109, 117, 115, 116, 32, 98, 101, 32, 39, 116, 97, 98, 108, 101,
    39, 32, 111, 114, 32, 39, 106, 115, 111, 110, 39, 41>>
\* ErrSaveConfigPrefix = 'failed to save config: '
ErrSaveConfigPrefix ==
  <<102, 97, 105, 108, 101, 100, 32, 116, 111, 32, 115, 97, 118, 101, 32, 99,
    111, 110, 102, 105, 103, 58, 32>>
\* ErrTokenVerificationPrefix = 'token verification failed: '
ErrTokenVerificationPrefix ==
  <<116, 111, 107, 101, 110, 32, 118, 101, 114, 105, 102, 105, 99, 97, 116,
    105, 111, 110, 32, 102, 97, 105, 108, 101, 100, 58, 32>>
\* KeyOutputFormat = 'output_format'
KeyOutputFormat ==
  <<111, 117, 116, 112, 117, 116, 95, 102, 111, 114, 109, 97, 116>>
\* KeyAPIToken = 'api_token'
KeyAPIToken ==
  <<97, 112, 105, 95, 116, 111, 107, 101, 110>>
\* MarkPermission = 'permission'
MarkPermission ==
  <<112, 101, 114, 109, 105, 115, 115, 105, 111, 110>>
\* MarkUnauthorized = 'unauthorized'
MarkUnauthorized ==
  <<117, 110, 97, 117, 116, 104, 111, 114, 105, 122, 101, 100>>
\* MarkForbidden = 'forbidden'
MarkForbidden ==
  <<102, 111, 114, 98, 105, 100, 100, 101, 110>>
\* Mark403 = '403'
Mark403 ==
  <<52, 48, 51>>
\* GuidanceUseID = 'Use the zone ID directly'
GuidanceUseID ==
  <<85, 115, 101, 32, 116, 104, 101, 32, 122, 111, 110, 101, 32, 73, 68, 32, 100, 105, 114, 101, 99, 116, 108, 121>>
\* GuidanceAllZones = 'Grant your token "All zones" read permission'
GuidanceAllZones ==
  <<71, 114, 97, 110, 116, 32, 121, 111, 117, 114, 32, 116, 111, 107, 101, 110, 32, 34, 65, 108, 108, 32, 122, 111, 110, 101, 115, 34, 32, 114, 101, 97, 100, 32, 112, 101, 114, 109, 105, 115, 115, 105, 111, 110>>
\* PE403 = 'HTTP status 403'
PE403 ==
  <<72, 84, 84, 80, 32, 115, 116, 97, 116, 117, 115, 32, 52, 48, 51>>
\* PEForbidden = 'Forbidden'
PEForbidden ==
  <<70, 111, 114, 98, 105, 100, 100, 101, 110>>
\* PEPermission = 'Missing PERMISSION for zone'
PEPermission ==
  <<77, 105, 115, 115, 105, 110, 103, 32, 80, 69, 82, 77, 73, 83, 83, 73, 79, 78, 32, 102, 111, 114, 32, 122, 111, 110, 101>>
\* PEUnauthorized = 'UnAuthorized to access requested resource'
PEUnauthorized ==
  <<85, 110, 65, 117, 116, 104, 111, 114, 105, 122, 101, 100, 32, 116, 111, 32, 97, 99, 99, 101, 115, 115, 32, 114, 101, 113, 117, 101, 115, 116, 101, 100, 32, 114, 101, 115, 111, 117, 114, 99, 101>>
\* PETimeout = 'context deadline exceeded'
PETimeout ==
  <<99, 111, 110, 116, 101, 120, 116, 32, 100, 101, 97, 100, 108, 105, 110, 101, 32, 101, 120, 99, 101, 101, 100, 101, 100>>
\* PE404 = 'HTTP status 404'
PE404 ==
  <<72, 84, 84, 80, 32, 115, 116, 97, 116, 117, 115, 32, 52, 48, 52>>
\* PE430 = 'HTTP status 430'
PE430 ==
  <<72, 84, 84, 80, 32, 115, 116, 97, 116, 117, 115, 32, 52, 51, 48>>
\* PEForbiden = 'forbiden'
PEForbiden ==
  <<102, 111, 114, 98, 105, 100, 101, 110>>

(***************************************************************************)
(* Pure helpers of the client package.                                     *)
(***************************************************************************)
ZoneIDLen == 32

\* Variant of looksLikeZoneID that also accepts upper-case hex digits.
looksLikeZoneID_AnyCase(s) ==
  /\ Len(s) = ZoneIDLen
  /\ \A i \in 1..Len(s) :
       \/ (s[i] >= 48 /\ s[i] <= 57)
       \/ (s[i] >= 97 /\ s[i] <= 102)
       \/ (s[i] >= 65 /\ s[i] <= 70)

\* looksLikeZoneID: 32 characters, each in '0'..'9' (48..57) or 'a'..'f'
\* (97..102).
looksLikeZoneID(s) ==
  /\ Len(s) = ZoneIDLen
  /\ \A i \in 1..Len(s) :
       (s[i] >= 48 /\ s[i] <= 57) \/ (s[i] >= 97 /\ s[i] <= 102)

\* strings.ToLower on ASCII text: 'A'..'Z' (65..90) map to 'a'..'z'.
ToLower(s) ==
  [i \in 1..Len(s) |-> IF s[i] >= 65 /\ s[i] <= 90 THEN s[i] + 32 ELSE s[i]]

\* strings.Contains
Contains(s, sub) ==
  \E i \in 0..(Len(s) - Len(sub)) : SubSeq(s, i + 1, i + Len(sub)) = sub

\* ErrAuthNoCredentials = 'no credentials configured' ...
ErrAuthNoCredentials ==
  <<110, 111, 32, 99, 114, 101, 100, 101, 110, 116, 105, 97, 108, 115, 32,
    99, 111, 110, 102, 105, 103, 117, 114, 101, 100, 10, 10, 83, 101, 116,
    32, 111, 110, 101, 32, 111, 102, 32, 116, 104, 101, 32, 102, 111, 108,
    108, 111, 119, 105, 110, 103, 58, 10, 32, 32, 69, 110, 118, 105, 114,
    111, 110, 109, 101, 110, 116, 32, 118, 97, 114, 105, 97, 98, 108, 101,
    58, 32, 67, 76, 79, 85, 68, 70, 76, 65, 82, 69, 95, 65, 80, 73, 95, 84,
    79, 75, 69, 78, 10, 32, 32, 111, 114, 10, 32, 32, 69, 110, 118, 105,
    114, 111, 110, 109, 101, 110, 116, 32, 118, 97, 114, 105, 97, 98, 108,
    101, 115, 58, 32, 67, 76, 79, 85, 68, 70, 76, 65, 82, 69, 95, 65, 80,
    73, 95, 75, 69, 89, 32, 43, 32, 67, 76, 79, 85, 68, 70, 76, 65, 82, 69,
    95, 65, 80, 73, 95, 69, 77, 65, 73, 76, 10, 32, 32, 111, 114, 10, 32,
    32, 67, 111, 110, 102, 105, 103, 32, 102, 105, 108, 101, 32, 97, 116,
    32, 126, 47, 46, 99, 108, 111, 117, 100, 102, 108, 97, 114, 101, 47,
    99, 111, 110, 102, 105, 103, 46, 121, 97, 109, 108, 32, 119, 105, 116,
    104, 58, 10, 32, 32, 32, 32, 97, 112, 105, 95, 116, 111, 107, 101, 110,
    58, 32, 121, 111, 117, 114, 45, 116, 111, 107, 101, 110, 45, 104, 101,
    114, 101>>

\* ErrVerifyPrefix = 'failed to verify credentials: '
ErrVerifyPrefix ==
  <<102, 97, 105, 108, 101, 100, 32, 116, 111, 32, 118, 101, 114, 105, 102,
    121, 32, 99, 114, 101, 100, 101, 110, 116, 105, 97, 108, 115, 58, 32>>

\* MarkNoCredentials = 'no credentials configured'
MarkNoCredentials ==
  <<110, 111, 32, 99, 114, 101, 100, 101, 110, 116, 105, 97, 108, 115, 32,
    99, 111, 110, 102, 105, 103, 117, 114, 101, 100>>

\* TextErrorPrefix = 'Error: '
TextErrorPrefix ==
  <<69, 114, 114, 111, 114, 58, 32>>

\* A nil error is the empty sequence.
NoErr == <<>>

\* Variant of isPermissionError that compares without lower-casing.
isPermissionError_CaseSensitive(e) ==
  IF e = NoErr THEN FALSE
  ELSE \/ Contains(e, MarkPermission)
       \/ Contains(e, MarkUnauthorized)
       \/ Contains(e, MarkForbidden)
       \/ Contains(e, Mark403)

isPermissionError(e) ==
  IF e = NoErr THEN FALSE
  ELSE LET errStr == ToLower(e) IN
         \/ Contains(errStr, MarkPermission)
         \/ Contains(errStr, MarkUnauthorized)
         \/ Contains(errStr, MarkForbidden)
         \/ Contains(errStr, Mark403)

\* Pointers: a nil pointer, or a pointer to a value.
NilInt == [set |-> FALSE, val |-> 0]
NilBool == [set |-> FALSE, val |-> FALSE]
NilStr == [set |-> FALSE, val |-> ""]
Ptr(v) == [set |-> TRUE, val |-> v]

boolValue(b) == IF ~b.set THEN FALSE ELSE b.val

(***************************************************************************)
(* Configuration: file and environment.                                    *)
(***************************************************************************)
EmptyConfig == [APIToken |-> "", APIKey |-> "", APIEmail |-> "", OutputFormat |-> ""]

EnvNames == {"CLOUDFLARE_API_TOKEN", "CF_API_TOKEN", "CLOUDFLARE_API_KEY",
             "CF_API_KEY", "CLOUDFLARE_API_EMAIL", "CF_API_EMAIL"}

EmptyEnv == [n \in EnvNames |-> ""]

getEnv_SecondFirst(e, n1, n2) ==
  IF e[n2] # "" THEN e[n2] ELSE IF e[n1] # "" THEN e[n1] ELSE ""

\* getEnv: the first non-empty variable of the two names.
getEnv(e, n1, n2) == IF e[n1] # "" THEN e[n1] ELSE IF e[n2] # "" THEN e[n2] ELSE ""

\* Load: the file's values when the file could be read, then the
\* environment's non-empty values over them.
Load(f, e) ==
  LET fromFile == IF f.readable THEN f.content ELSE EmptyConfig
      token == getEnv(e, "CLOUDFLARE_API_TOKEN", "CF_API_TOKEN")
      key   == getEnv(e, "CLOUDFLARE_API_KEY", "CF_API_KEY")
      email == getEnv(e, "CLOUDFLARE_API_EMAIL", "CF_API_EMAIL")
  IN [APIToken     |-> IF token # "" THEN token ELSE fromFile.APIToken,
      APIKey       |-> IF key # "" THEN key ELSE fromFile.APIKey,
      APIEmail     |-> IF email # "" THEN email ELSE fromFile.APIEmail,
      OutputFormat |-> fromFile.OutputFormat]

\* Config.Save: the directory is made and the whole configuration is written
\* over the file, or one of the two fails and the file stays as it was.
\* The error is 'open config.yaml: permission denied'.
SaveOutcomes ==
  {[ok |-> TRUE, err |-> NoErr],
   [ok |-> FALSE,
    err |-> <<111, 112, 101, 110, 32, 99, 111, 110, 102, 105, 103, 46, 121,
              97, 109, 108, 58, 32, 112, 101, 114, 109, 105, 115, 115, 105,
              111, 110, 32, 100, 101, 110, 105, 101, 100>>]}

\* The file Save leaves: the four fields of c, an empty one left out, which
\* reads back as empty.
Save(c) == [readable |-> TRUE, content |-> c]

HasCredentials_KeyAlone(c) == c.APIToken # "" \/ c.APIKey # ""

HasCredentials(c) == c.APIToken # "" \/ (c.APIKey # "" /\ c.APIEmail # "")

\* AuthMethod: the description of the credentials in use.
AuthMethod(c) ==
  IF c.APIToken # "" THEN "API Token"
  ELSE IF c.APIKey # "" /\ c.APIEmail # "" THEN "API Key + Email"
  ELSE "None"

\* The writer's format chosen by PersistentPreRunE: flag > config > table.
WriterFormat(c, outputChanged, outputFlag) ==
  IF outputChanged
    THEN (IF outputFlag = "json" THEN "json" ELSE "table")
    ELSE (IF c.OutputFormat = "json" THEN "json" ELSE "table")

(***************************************************************************)
(* Output renderer.  A piece of output is one write of the renderer.       *)
(***************************************************************************)
\* WriteJSON: the value encoded as one JSON document; shape is the JSON kind
\* the Go value encodes to.
WriteJSON(shape, data) == [fmt |-> "json", shape |-> shape, value |-> data]

Min(a, b) == IF a < b THEN a ELSE b

writeTableAsJSON_EmptyForMissing(hs, rs) ==
  WriteJSON("array",
    [r \in 1..Len(rs) |->
       [h \in {hs[i] : i \in 1..Len(hs)} |->
          LET i == CHOOSE k \in 1..Len(hs) : hs[k] = h
          IN IF i <= Len(rs[r]) THEN rs[r][i] ELSE ""]])

\* writeTableAsJSON: one mapping per row, header -> cell, for the headers
\* that have a cell in the row.
writeTableAsJSON(hs, rs) ==
  WriteJSON("array",
    [r \in 1..Len(rs) |->
       [h \in {hs[i] : i \in 1..Min(Len(hs), Len(rs[r]))} |->
          rs[r][CHOOSE i \in 1..Min(Len(hs), Len(rs[r])) :
                  /\ hs[i] = h
                  /\ \A j \in (i + 1)..Min(Len(hs), Len(rs[r])) : hs[j] # h]]])

\* writeASCIITable as the commands use it: the table to print, which
\* writeASCIITableLines below turns into its lines of text.
writeASCIITable(hs, rs) ==
  [fmt |-> "text", shape |-> "table", value |-> [headers |-> hs, rows |-> rs]]

WriteTable(w, hs, rs) ==
  IF w = "json" THEN writeTableAsJSON(hs, rs)
  ELSE writeASCIITable(hs, rs)

\* n spaces.
RECURSIVE Spaces(_)
Spaces(n) == IF n <= 0 THEN "" ELSE " " \o Spaces(n - 1)

\* fmt.Sprintf("%-*s", width, s): s, then spaces up to the width; a longer
\* s is left whole.
PadRight(width, s) == s \o Spaces(width - Len(s))

\* strings.Join(parts, "  ")
RECURSIVE JoinTwoSpaces(_)
JoinTwoSpaces(parts) ==
  IF Len(parts) = 0 THEN ""
  ELSE IF Len(parts) = 1 THEN parts[1]
  ELSE parts[1] \o "  " \o JoinTwoSpaces(Tail(parts))

columnWidths_HeadersOnly(hs, rs) == [i \in 1..Len(hs) |-> Len(hs[i])]

\* The widths writeASCIITable computes: the header's length, raised by every
\* longer cell of the column.
columnWidths(hs, rs) ==
  [i \in 1..Len(hs) |->
     LET lens == {Len(hs[i])}
                   \cup {Len(rs[r][i]) : r \in {k \in 1..Len(rs) : i <= Len(rs[k])}}
     IN CHOOSE m \in lens : \A n \in lens : n <= m]

rowParts_PadMissing(widths, row) ==
  [i \in 1..Len(widths) |->
     PadRight(widths[i], IF i <= Len(row) THEN row[i] ELSE "")]

\* The parts of one row's line: the row's own cells that have a column,
\* each padded to the column's width.
rowParts(widths, row) ==
  [i \in 1..Min(Len(row), Len(widths)) |-> PadRight(widths[i], row[i])]

\* writeASCIITable: the lines it prints, the header line first.
writeASCIITableLines(hs, rs) ==
  LET widths == columnWidths(hs, rs)
  IN <<JoinTwoSpaces([i \in 1..Len(hs) |-> PadRight(widths[i], hs[i])])>>
     \o [r \in 1..Len(rs) |-> JoinTwoSpaces(rowParts(widths, rs[r]))]

\* WriteTable with the text of the table written out.
WriteTableText(w, hs, rs) ==
  IF w = "json" THEN writeTableAsJSON(hs, rs)
  ELSE [fmt |-> "text", shape |-> "lines", value |-> writeASCIITableLines(hs, rs)]

WriteSuccess_AlwaysText(w, msg) ==
  [fmt |-> "text", shape |-> "line", value |-> msg]

WriteSuccess(w, msg) ==
  IF w = "json" THEN WriteJSON("object", [status |-> "success", message |-> msg])
  ELSE [fmt |-> "text", shape |-> "line", value |-> msg]

\* fmt.Println of a bare value, outside the renderer.
Println(msg) == [fmt |-> "text", shape |-> "line", value |-> msg]

FormatBool(b) == IF b THEN "true" ELSE "false"

FormatTTL(ttl) == IF ttl = 1 THEN "Auto" ELSE ToString(ttl)

ZoneHeaders == <<"ID", "Name", "Status">>

DNSHeaders == <<"ID", "Type", "Name", "Content", "TTL", "Proxied">>

ZoneRow(z) == <<z.ID, z.Name, z.Status>>

DNSRow(r) == <<r.ID, r.Type, r.Name, r.Content, FormatTTL(r.TTL), FormatBool(r.Proxied)>>

\* writeDNSRecordTable
writeDNSRecordTable(w, records) ==
  WriteTable(w, DNSHeaders, [i \in 1..Len(records) |-> DNSRow(records[i])])

(***************************************************************************)
(* The provider: zones of the account and the errors a call may return.    *)
(***************************************************************************)
\* Zones in the order the provider lists them.  The second zone's name has
\* the shape of an identifier and equals the first zone's identifier; the
\* third zone has the same name as the first.
Zones ==
  << [ID |-> ExampleID, Name |-> ExampleName, Status |-> "active"],
     [ID |-> OtherID,   Name |-> ExampleID,   Status |-> "active"],
     [ID |-> ThirdID,   Name |-> ExampleName, Status |-> "pending"] >>

NoZone == [ID |-> <<>>, Name |-> <<>>, Status |-> ""]

\* Errors a zone call of the provider may fail with.
ZoneErrors == {PE403, PEForbidden, PEPermission, PEUnauthorized,
               PETimeout, PE404, PE430, PEForbiden}

\* Errors a record call of the provider may fail with.
RecordErrors == {PE403, PE404}

\* api.ZoneDetails(id): the zone with that identifier, or an error.
ZoneDetailsOutcomes(id) ==
  {[ok |-> TRUE, zone |-> Zones[i], err |-> NoErr] :
      i \in {j \in 1..Len(Zones) : Zones[j].ID = id}}
  \cup {[ok |-> FALSE, zone |-> NoZone, err |-> e] : e \in ZoneErrors}

\* api.ListZones(name): the zones with that name in the provider's order,
\* or an error.
ListZonesOutcomes(name) ==
  LET Named(z) == z.Name = name IN
  {[ok |-> TRUE, zones |-> SelectSeq(Zones, Named), err |-> NoErr]}
  \cup {[ok |-> FALSE, zones |-> <<>>, err |-> e] : e \in ZoneErrors}

\* api.ListZones(): every zone, or an error.
ListAllZonesOutcomes ==
  {[ok |-> TRUE, zones |-> Zones, err |-> NoErr],
   [ok |-> TRUE, zones |-> <<>>, err |-> NoErr]}
  \cup {[ok |-> FALSE, zones |-> <<>>, err |-> e] : e \in ZoneErrors}

RecordIDs == <<"r1", "r2", "r3">>

\* Record stores the provider may hold when the command starts.
InitStores ==
  { [id \in {"r1"} |->
       [ID |-> id, ZoneID |-> ExampleID, Type |-> "A", Name |-> "www",
        Content |-> "c1", TTL |-> 1, Proxied |-> Ptr(TRUE),
        Priority |-> NilInt, Comment |-> "old"]],
    [id \in {"r1", "r2"} |->
       [ID |-> id, ZoneID |-> ExampleID, Type |-> "MX", Name |-> "mail",
        Content |-> "c1", TTL |-> 300, Proxied |-> NilBool,
        Priority |-> Ptr(10), Comment |-> "old"]] }

\* The record as the client returns it.
toDNSRecord(r) ==
  [ID |-> r.ID, Type |-> r.Type, Name |-> r.Name, Content |-> r.Content,
   TTL |-> r.TTL, Proxied |-> boolValue(r.Proxied), Priority |-> r.Priority,
   Comment |-> r.Comment]

NoRecord ==
  [ID |-> "", Type |-> "", Name |-> "", Content |-> "", TTL |-> 0,
   Proxied |-> FALSE, Priority |-> NilInt, Comment |-> ""]

\* Records of a zone matching the type and name filters ("" = no filter),
\* in identifier order.
MatchingRecords(st, zid, recordType, name) ==
  LET Match(id) == /\ id \in DOMAIN st
                   /\ st[id].ZoneID = zid
                   /\ (recordType = "" \/ st[id].Type = recordType)
                   /\ (name = "" \/ st[id].Name = name)
      ids == SelectSeq(RecordIDs, Match)
  IN [i \in 1..Len(ids) |-> toDNSRecord(st[ids[i]])]

\* The identifier the provider gives a new record.
FreshID(st) ==
  RecordIDs[CHOOSE i \in 1..Len(RecordIDs) :
              /\ RecordIDs[i] \notin DOMAIN st
              /\ \A j \in 1..(i - 1) : RecordIDs[j] \in DOMAIN st]

\* The provider's update: fields absent from the request (nil pointer, or
\* an empty value of an omitempty field) keep their stored value.
ApplyUpdate(r, p) ==
  [r EXCEPT !.Type = IF p.Type # "" THEN p.Type ELSE @,
            !.Name = IF p.Name # "" THEN p.Name ELSE @,
            !.Content = IF p.Content # "" THEN p.Content ELSE @,
            !.TTL = IF p.TTL # 0 THEN p.TTL ELSE @,
            !.Proxied = IF p.Proxied.set THEN p.Proxied ELSE @,
            !.Priority = IF p.Priority.set THEN p.Priority ELSE @,
            !.Comment = IF p.Comment.set THEN p.Comment.val ELSE @]

(***************************************************************************)
(* Command lines.                                                          *)
(***************************************************************************)
\* Flags registered for each command (besides the persistent --output).
RegisteredFlags(cmd) ==
  CASE cmd \in {"dns list", "dns find"} -> {"type", "name"}
    [] cmd \in {"dns create", "dns update"} ->
         {"type", "name", "content", "ttl", "proxied", "priority"}
    [] OTHER -> {}

\* Flag variables hold their default until the flag is given.
BaseArgv ==
  [cmd |-> "", zone |-> <<>>, rec |-> "", key |-> <<>>, given |-> {},
   dnsType |-> "", dnsName |-> "", dnsContent |-> "", dnsTTL |-> 1,
   dnsProxied |-> "", dnsPriority |-> 0, comment |-> "",
   outputFormat |-> "table", value |-> "", token |-> ""]

FlagVals(name, given, vals, default) == IF name \in given THEN vals ELSE {default}

\* Zone arguments: identifiers of zones, the same with one character
\* replaced at either end, too short, too long, names, and the empty string.
EdgeChars == {47, 48, 57, 58, 65, 70, 96, 97, 102, 103}

ZoneArgs ==
  {ExampleID, OtherID, ThirdID, ExampleName, MissingName, <<>>,
   SubSeq(ExampleID, 1, ZoneIDLen - 1), ExampleID \o <<48>>}
  \cup {[ExampleID EXCEPT ![i] = c] : i \in {1, ZoneIDLen}, c \in EdgeChars}

\* Zone arguments of the dns commands; the commands with many flags are run
\* with zone names only.
DnsZoneArgs == {ExampleName, ThirdID, MissingName}

NameZoneArgs == {ExampleName, MissingName}

RecordArgs == {"r1", "r3"}

OutputChoices == {<<FALSE, "table">>, <<TRUE, "json">>, <<TRUE, "table">>}

WithOutput(a) ==
  {[a EXCEPT !.given = IF o[1] THEN @ \cup {"output"} ELSE @,
             !.outputFormat = o[2]] : o \in OutputChoices}

DnsFlagArgv(cmd, candidates) ==
  UNION {
    {[BaseArgv EXCEPT !.cmd = cmd, !.given = g, !.dnsType = t, !.dnsName = n,
                      !.dnsContent = c, !.dnsTTL = ttl, !.dnsProxied = px,
                      !.dnsPriority = pr, !.comment = cm] :
        t \in FlagVals("type", g, {"TXT"}, ""),
        n \in FlagVals("name", g, {"www2"}, ""),
        c \in FlagVals("content", g, {"c2"}, ""),
        ttl \in FlagVals("ttl", g, {300}, 1),
        px \in FlagVals("proxied", g, {"true", "false", "maybe"}, ""),
        pr \in FlagVals("priority", g, {0, 10}, 0),
        cm \in FlagVals("comment", g, {"", "note"}, "")}
    : g \in SUBSET candidates}

Invocations ==
  UNION {WithOutput(a) : a \in
    {[BaseArgv EXCEPT !.cmd = "zones list"]}
    \cup {[BaseArgv EXCEPT !.cmd = "zones get", !.zone = z] : z \in ZoneArgs}
    \cup {[BaseArgv EXCEPT !.cmd = "config get", !.key = k] :
            k \in {KeyOutputFormat, KeyAPIToken}}
    \cup {[BaseArgv EXCEPT !.cmd = "config list"]}
    \cup {[BaseArgv EXCEPT !.cmd = "auth verify"]}
    \cup {[a2 EXCEPT !.zone = z] :
            a2 \in DnsFlagArgv("dns list", {"type", "name"})
                   \cup DnsFlagArgv("dns find", {"type", "name"}),
            z \in DnsZoneArgs}
    \cup {[BaseArgv EXCEPT !.cmd = c, !.zone = ExampleName, !.given = f.given,
                           !.dnsType = f.dnsType, !.dnsName = f.dnsName] :
            c \in {"dns list", "dns find"},
            f \in {[given |-> {"type"}, dnsType |-> "MX", dnsName |-> ""],
                   [given |-> {"name"}, dnsType |-> "", dnsName |-> "mail"],
                   [given |-> {"type", "name"}, dnsType |-> "A",
                    dnsName |-> "www"]}}
    \cup {[a2 EXCEPT !.zone = z] :
            a2 \in DnsFlagArgv("dns create", RegisteredFlags("dns create")),
            z \in NameZoneArgs}
    \cup {[a2 EXCEPT !.zone = z, !.rec = r] :
            a2 \in {[BaseArgv EXCEPT !.cmd = "dns get"],
                    [BaseArgv EXCEPT !.cmd = "dns delete"]},
            z \in DnsZoneArgs, r \in RecordArgs}
    \cup {[a2 EXCEPT !.zone = z, !.rec = r] :
            a2 \in DnsFlagArgv("dns update", RegisteredFlags("dns update"))
                   \cup DnsFlagArgv("dns update", {"content", "comment"}),
            z \in NameZoneArgs, r \in RecordArgs}}

\* Config file and environment the command may start with.
FileWith(token, format) ==
  [readable |-> TRUE, content |-> [EmptyConfig EXCEPT !.APIToken = token,
                                                     !.OutputFormat = format]]

\* A config file holding an API key and no token.
FileWithKey(key, format) ==
  [readable |-> TRUE, content |-> [EmptyConfig EXCEPT !.APIKey = key,
                                                     !.OutputFormat = format]]

NoFile == [readable |-> FALSE, content |-> EmptyConfig]

Setups ==
  {<<NoFile, EmptyEnv>>,
   <<FileWithKey("filekey", "json"), EmptyEnv>>,
   <<FileWithKey("filekey", "table"),
     [EmptyEnv EXCEPT !["CLOUDFLARE_API_EMAIL"] = "a@ex.co"]>>,
   <<FileWith("filetoken", "json"), EmptyEnv>>,
   <<FileWith("", "table"), [EmptyEnv EXCEPT !["CF_API_TOKEN"] = "envtoken"]>>}

(***************************************************************************)
(* Update check: versions and the handoff channel.                         *)
(***************************************************************************)
\* VersionDev = 'dev'
VersionDev ==
  <<100, 101, 118>>

\* Build versions and release versions the update check may meet.
\* Build versions the update check may run in, by their text.
Builds ==
  ("dev" :> VersionDev) @@ ("1.9" :> <<49, 46, 57>>)
    @@ ("v1.10.0" :> <<118, 49, 46, 49, 48, 46, 48>>) @@ ("x" :> <<120>>)

\* Versions the latest release may carry, by their text.
Releases ==
  ("1.9.0" :> <<49, 46, 57, 46, 48>>) @@ ("1.10" :> <<49, 46, 49, 48>>)
    @@ ("2.0" :> <<50, 46, 48>>) @@ ("x" :> <<120>>)

\* The pieces of s between its dots.
RECURSIVE SplitDots(_)
SplitDots(s) ==
  IF \A i \in 1..Len(s) : s[i] # 46 THEN <<s>>
  ELSE LET k == CHOOSE i \in 1..Len(s) :
                  s[i] = 46 /\ \A j \in 1..(i - 1) : s[j] # 46
       IN <<SubSeq(s, 1, k - 1)>> \o SplitDots(SubSeq(s, k + 1, Len(s)))

\* The number a string of digits denotes.
RECURSIVE Atoi(_)
Atoi(s) ==
  IF s = <<>> THEN 0
  ELSE 10 * Atoi(SubSeq(s, 1, Len(s) - 1)) + (s[Len(s)] - 48)

\* goversion.NewVersion for versions without pre-release or metadata part:
\* an optional "v", then numeric segments separated by dots, padded with
\* zeros to three segments; anything else is an error.
NewVersion(s) ==
  LET body  == IF s # <<>> /\ s[1] = 118 THEN Tail(s) ELSE s
      parts == SplitDots(body)
      ok    == \A i \in 1..Len(parts) :
                 /\ Len(parts[i]) > 0
                 /\ \A j \in 1..Len(parts[i]) : parts[i][j] \in 48..57
      n     == IF Len(parts) > 3 THEN Len(parts) ELSE 3
  IN IF ok
       THEN [ok |-> TRUE,
             segments |-> [i \in 1..n |-> IF i <= Len(parts)
                                            THEN Atoi(parts[i]) ELSE 0]]
       ELSE [ok |-> FALSE, segments |-> <<>>]

\* Segment i of a version, zero past its end.
Segment(v, i) == IF i <= Len(v) THEN v[i] ELSE 0

GreaterThan_OrEqual(a, b) ==
  LET n == IF Len(a) > Len(b) THEN Len(a) ELSE Len(b)
  IN \/ \A i \in 1..n : Segment(a, i) = Segment(b, i)
     \/ \E i \in 1..n : /\ Segment(a, i) > Segment(b, i)
                        /\ \A j \in 1..(i - 1) : Segment(a, j) = Segment(b, j)

\* Version.GreaterThan: a is strictly greater than b, segment by segment.
GreaterThan(a, b) ==
  LET n == IF Len(a) > Len(b) THEN Len(a) ELSE Len(b)
  IN \E i \in 1..n : /\ Segment(a, i) > Segment(b, i)
                     /\ \A j \in 1..(i - 1) : Segment(a, j) = Segment(b, j)

\* The nil channel updateMessage holds before StartUpdateCheck.
NilChan == [made |-> FALSE, cap |-> 0, buf |-> <<>>, closed |-> FALSE]

MakeChan_Unbuffered == [made |-> TRUE, cap |-> 0, buf |-> <<>>, closed |-> FALSE]

\* make(chan string, 1)
MakeChan == [made |-> TRUE, cap |-> 1, buf |-> <<>>, closed |-> FALSE]

\* DetectLatest has not returned.
NoRelease == [called |-> FALSE, err |-> NoErr, found |-> FALSE, version |-> <<>>]

\* selfupdate.DetectLatest: an error (the 5 s timeout among them), no
\* release found, or the latest release.
DetectLatestOutcomes ==
  {[called |-> TRUE, err |-> e, found |-> FALSE, version |-> <<>>] :
      e \in {PETimeout, PE404}}
  \cup {[called |-> TRUE, err |-> NoErr, found |-> FALSE, version |-> <<>>]}
  \cup {[called |-> TRUE, err |-> NoErr, found |-> TRUE, version |-> v] :
          v \in {Releases[k] : k \in DOMAIN Releases}}

\* The notice about the release v:
\* '\nA new version (' v ') is available. Update with: cf update\n'
UpdateNotice(v) ==
  <<10, 65, 32, 110, 101, 119, 32, 118, 101, 114, 115, 105, 111, 110, 32, 40>>
    \o v
    \o <<41, 32, 105, 115, 32, 97, 118, 97, 105, 108, 97, 98, 108, 101, 46, 32, 85, 112, 100, 97, 116, 101, 32, 119, 105, 116, 104, 58, 32, 99, 102, 32, 117, 112, 100, 97, 116, 101, 10>>

\* fmt.Print of the notice.
FmtPrint(msg) == [fmt |-> "text", shape |-> "notice", value |-> msg]

(***************************************************************************)
(* State.                                                                  *)
(***************************************************************************)
VARIABLES
  file,      \* the config file
  env,       \* the process environment
  argv,      \* the command line: command, arguments, flags given, flag variables
  store,     \* the provider's DNS records, by identifier
  pc,        \* position of the command
  cfg,       \* cmd.cfg, the loaded configuration
  out,       \* cmd.out, the writer's format ("" before PersistentPreRunE)
  zoneID,    \* the resolved zone identifier
  existing,  \* the record dns update fetched
  calls,     \* provider calls issued so far, in order
  stdout,    \* pieces of output written so far, in order
  err,       \* the error the command returned (NoErr: none)
  Version,        \* version.Version, set at build time
  updateMessage,  \* version.updateMessage, the handoff channel
  checker,        \* position of the update check's goroutine
  latest,         \* what DetectLatest returned to the goroutine
  sent,           \* the notices sent on updateMessage so far
  headers,        \* the headers handed to WriteTable
  rows            \* the rows handed to WriteTable

\* The arguments of a WriteTable call.
tableVars == <<headers, rows>>

\* The state of the update check.
updateVars == <<Version, updateMessage, checker, latest, sent>>

\* The state of the command apart from its position, output and result.
cmdVars == <<file, env, argv, store, cfg, out, zoneID, existing, calls,
             tableVars>>

vars == <<file, env, argv, store, pc, cfg, out, zoneID, existing, calls, stdout,
          err, updateVars, tableVars>>

Changed(name) == name \in argv.given

Init ==
  /\ \E s \in Setups : file = s[1] /\ env = s[2]
  /\ argv \in Invocations
  /\ store \in InitStores
  /\ pc = "parse"
  /\ cfg = EmptyConfig
  /\ out = ""
  /\ zoneID = <<>>
  /\ existing = NoRecord
  /\ calls = <<>>
  /\ stdout = <<>>
  /\ err = NoErr
  /\ Version = VersionDev
  /\ updateMessage = NilChan
  /\ checker = "none"
  /\ latest = NoRelease
  /\ sent = <<>>
  /\ headers = <<>>
  /\ rows = <<>>

\* The command returns e.
Fail(e) == pc' = "done" /\ err' = e

(***************************************************************************)
(* Start of the command.                                                   *)
(***************************************************************************)
\* Flag parsing: a flag that is not registered for the command is an error
\* and the command does not run.
ParseFlags ==
  /\ pc = "parse"
  /\ IF argv.given \subseteq RegisteredFlags(argv.cmd) \cup {"output"}
       THEN pc' = "prerun" /\ err' = err
       ELSE Fail(ErrUnknownFlagComment)
  /\ UNCHANGED <<tableVars, updateVars, file, env, argv, store, cfg, out, zoneID, existing, calls, stdout>>

PersistentPreRunE ==
  /\ pc = "prerun"
  /\ cfg' = Load(file, env)
  /\ out' = WriterFormat(cfg', Changed("output"), argv.outputFormat)
  /\ pc' = "run"
  /\ UNCHANGED <<tableVars, updateVars, file, env, argv, store, zoneID, existing, calls, stdout, err>>

\* client.New: fails without usable credentials.
NewClientErr(c) == IF ~HasCredentials(c) THEN ErrNoCredentials ELSE NoErr

(***************************************************************************)
(* Zone resolution: Client.GetZone, reached through zones get and through  *)
(* resolveZone / ResolveZoneID.                                            *)
(***************************************************************************)
\* zones get renders the zone it got.
RenderZone(w, outputFlag, z) ==
  IF outputFlag = "json" THEN WriteJSON("object", z)
  ELSE WriteTable(w, ZoneHeaders, <<ZoneRow(z)>>)

\* What the caller of GetZone does with the zone: zones get renders it,
\* ResolveZoneID hands its identifier to the record operation.
AfterGetZone(z) ==
  IF argv.cmd = "zones get"
    THEN /\ stdout' = Append(stdout, RenderZone(out, argv.outputFormat, z))
         /\ pc' = "done"
         /\ zoneID' = zoneID
    ELSE /\ zoneID' = z.ID
         /\ pc' = "resolved"
         /\ stdout' = stdout

\* Variant of GetZoneNameResult that takes the last zone returned.
GetZoneNameResult_Last(nameOrID, r) ==
  IF ~r.ok
    THEN [zone |-> NoZone,
          err |-> IF isPermissionError(r.err)
                    THEN ErrZonePermissionPrefix \o r.err
                    ELSE r.err]
  ELSE IF Len(r.zones) = 0
    THEN [zone |-> NoZone, err |-> ErrZoneNotFoundPrefix \o nameOrID]
  ELSE [zone |-> r.zones[Len(r.zones)], err |-> NoErr]

\* The result of GetZone's lookup by name, from the provider's answer r.
GetZoneNameResult(nameOrID, r) ==
  IF ~r.ok
    THEN [zone |-> NoZone,
          err |-> IF isPermissionError(r.err)
                    THEN ErrZonePermissionPrefix \o r.err
                    ELSE r.err]
  ELSE IF Len(r.zones) = 0
    THEN [zone |-> NoZone, err |-> ErrZoneNotFoundPrefix \o nameOrID]
  ELSE [zone |-> r.zones[1], err |-> NoErr]

\* Variant of GetZoneByID that goes on to the lookup by name after a
\* successful fetch.
GetZoneByID_FallThrough ==
  /\ pc = "GetZone"
  /\ looksLikeZoneID(argv.zone)
  /\ \E r \in ZoneDetailsOutcomes(argv.zone) :
       /\ calls' = Append(calls, [op |-> "ZoneDetails", arg |-> argv.zone,
                                  ok |-> r.ok, err |-> r.err,
                                  ret |-> <<r.zone.ID>>])
       /\ pc' = "GetZone.byName"
       /\ UNCHANGED <<zoneID, stdout, err>>
  /\ UNCHANGED <<tableVars, updateVars, file, env, argv, store, cfg, out, existing>>

\* First try by identifier, when the argument looks like one.
GetZoneByID ==
  /\ pc = "GetZone"
  /\ looksLikeZoneID(argv.zone)
  /\ \E r \in ZoneDetailsOutcomes(argv.zone) :
       /\ calls' = Append(calls, [op |-> "ZoneDetails", arg |-> argv.zone,
                                  ok |-> r.ok, err |-> r.err,
                                  ret |-> <<r.zone.ID>>])
       /\ IF r.ok
            THEN AfterGetZone(r.zone) /\ err' = err
            ELSE pc' = "GetZone.byName" /\ UNCHANGED <<zoneID, stdout, err>>
  /\ UNCHANGED <<tableVars, updateVars, file, env, argv, store, cfg, out, existing>>

\* Variant of GetZoneByName that repeats a failed lookup.
GetZoneByName_Retry ==
  /\ \/ pc = "GetZone" /\ ~looksLikeZoneID(argv.zone)
     \/ pc = "GetZone.byName"
  /\ \E r \in ListZonesOutcomes(argv.zone) :
       LET res == GetZoneNameResult(argv.zone, r) IN
       /\ calls' = Append(calls, [op |-> "ListZones", arg |-> argv.zone,
                                  ok |-> r.ok, err |-> r.err,
                                  ret |-> [i \in 1..Len(r.zones) |-> r.zones[i].ID]])
       /\ IF ~r.ok
            THEN pc' = "GetZone.byName" /\ UNCHANGED <<zoneID, stdout, err>>
          ELSE IF res.err # NoErr
            THEN Fail(res.err) /\ UNCHANGED <<zoneID, stdout>>
            ELSE AfterGetZone(res.zone) /\ err' = err
  /\ UNCHANGED <<tableVars, updateVars, file, env, argv, store, cfg, out, existing>>

\* Then by name.
GetZoneByName ==
  /\ \/ pc = "GetZone" /\ ~looksLikeZoneID(argv.zone)
     \/ pc = "GetZone.byName"
  /\ \E r \in ListZonesOutcomes(argv.zone) :
       LET res == GetZoneNameResult(argv.zone, r) IN
       /\ calls' = Append(calls, [op |-> "ListZones", arg |-> argv.zone,
                                  ok |-> r.ok, err |-> r.err,
                                  ret |-> [i \in 1..Len(r.zones) |-> r.zones[i].ID]])
       /\ IF res.err # NoErr
            THEN Fail(res.err) /\ UNCHANGED <<zoneID, stdout>>
            ELSE AfterGetZone(res.zone) /\ err' = err
  /\ UNCHANGED <<tableVars, updateVars, file, env, argv, store, cfg, out, existing>>

(***************************************************************************)
(* zones commands.                                                         *)
(***************************************************************************)
ZonesGetRunE ==
  /\ pc = "run" /\ argv.cmd = "zones get"
  /\ IF NewClientErr(cfg) # NoErr
       THEN Fail(NewClientErr(cfg))
       ELSE pc' = "GetZone" /\ err' = err
  /\ UNCHANGED <<tableVars, updateVars, file, env, argv, store, cfg, out, zoneID, existing, calls, stdout>>

ZonesListRunE ==
  /\ pc = "run" /\ argv.cmd = "zones list"
  /\ IF NewClientErr(cfg) # NoErr
       THEN Fail(NewClientErr(cfg))
       ELSE pc' = "ListZones" /\ err' = err
  /\ UNCHANGED <<tableVars, updateVars, file, env, argv, store, cfg, out, zoneID, existing, calls, stdout>>

\* Client.ListZones and the rendering of its result.
ZonesList ==
  /\ pc = "ListZones"
  /\ \E r \in ListAllZonesOutcomes :
       /\ calls' = Append(calls, [op |-> "ListAllZones", arg |-> <<>>,
                                  ok |-> r.ok, err |-> r.err,
                                  ret |-> [i \in 1..Len(r.zones) |-> r.zones[i].ID]])
       /\ IF ~r.ok
            THEN /\ Fail(IF isPermissionError(r.err)
                           THEN ErrListZonesPermissionPrefix \o r.err
                           ELSE r.err)
                 /\ stdout' = stdout
          ELSE /\ pc' = "done" /\ err' = err
               /\ stdout' = Append(stdout,
                    IF Len(r.zones) = 0
                      THEN WriteSuccess(out, "No zones found")
                      ELSE WriteTable(out, ZoneHeaders,
                             [i \in 1..Len(r.zones) |-> ZoneRow(r.zones[i])]))
  /\ UNCHANGED <<tableVars, updateVars, file, env, argv, store, cfg, out, zoneID, existing>>

(***************************************************************************)
(* auth verify.                                                            *)
(***************************************************************************)
AuthVerifyRunE ==
  /\ pc = "run" /\ argv.cmd = "auth verify"
  /\ IF ~HasCredentials(cfg)
       THEN Fail(ErrAuthNoCredentials)
       ELSE IF NewClientErr(cfg) # NoErr
         THEN Fail(NewClientErr(cfg))
         ELSE pc' = "VerifyToken" /\ err' = err
  /\ UNCHANGED <<tableVars, updateVars, file, env, argv, store, cfg, out, zoneID, existing, calls, stdout>>

\* The outcome of one verification call: success or an error.
VerifyOutcomes ==
  {[ok |-> TRUE, err |-> NoErr]} \cup {[ok |-> FALSE, err |-> e] : e \in {PE403, PETimeout}}

\* Client.VerifyToken, and what auth verify does with its result: the token
\* check, and the listing of zones only when the token check failed.
VerifyToken ==
  /\ pc = "VerifyToken"
  /\ \E v \in VerifyOutcomes, l \in VerifyOutcomes :
       LET first  == [op |-> "VerifyAPIToken", ok |-> v.ok, err |-> v.err]
           second == [op |-> "ListAllZones", arg |-> <<>>, ok |-> l.ok,
                      err |-> l.err, ret |-> <<>>]
       IN /\ calls' = IF v.ok THEN Append(calls, first)
                      ELSE calls \o <<first, second>>
          /\ IF ~v.ok /\ ~l.ok
               THEN Fail(ErrVerifyPrefix \o l.err) /\ stdout' = stdout
               ELSE /\ pc' = "done" /\ err' = err
                    /\ stdout' = Append(stdout, WriteSuccess(out,
                         "Authentication successful (using "
                           \o AuthMethod(cfg) \o ")"))
  /\ UNCHANGED <<tableVars, updateVars, file, env, argv, store, cfg, out, zoneID, existing>>

(***************************************************************************)
(* auth save.                                                              *)
(***************************************************************************)
\* The configuration auth save builds: the token argument and nothing else.
newCfg == [EmptyConfig EXCEPT !.APIToken = argv.token]

AuthSaveRunE ==
  /\ pc = "run" /\ argv.cmd = "auth save"
  /\ IF NewClientErr(newCfg) # NoErr
       THEN Fail(NewClientErr(newCfg))
       ELSE pc' = "auth save.VerifyToken" /\ err' = err
  /\ UNCHANGED <<tableVars, updateVars, file, env, argv, store, cfg, out, zoneID, existing, calls, stdout>>

\* Client.VerifyToken for the new token, and what auth save does with its
\* result: the error wrapped, or newCfg saved and the message written.
AuthSaveVerifyToken ==
  /\ pc = "auth save.VerifyToken"
  /\ \E v \in VerifyOutcomes, l \in VerifyOutcomes, s \in SaveOutcomes :
       LET first  == [op |-> "VerifyAPIToken", ok |-> v.ok, err |-> v.err]
           second == [op |-> "ListAllZones", arg |-> <<>>, ok |-> l.ok,
                      err |-> l.err, ret |-> <<>>]
       IN /\ calls' = IF v.ok THEN Append(calls, first)
                      ELSE calls \o <<first, second>>
          /\ IF ~v.ok /\ ~l.ok
               THEN /\ Fail(ErrTokenVerificationPrefix \o ErrVerifyPrefix \o l.err)
                    /\ UNCHANGED <<file, stdout>>
             ELSE IF ~s.ok
               THEN Fail(ErrSaveConfigPrefix \o s.err) /\ UNCHANGED <<file, stdout>>
               ELSE /\ file' = Save(newCfg)
                    /\ stdout' = Append(stdout, WriteSuccess(out,
                         "Token saved to " \o "~/.cloudflare/config.yaml"))
                    /\ pc' = "done" /\ err' = err
  /\ UNCHANGED <<tableVars, updateVars, env, argv, store, cfg, out, zoneID, existing>>

(***************************************************************************)
(* config commands.                                                        *)
(***************************************************************************)
ConfigGetRunE ==
  /\ pc = "run" /\ argv.cmd = "config get"
  /\ IF argv.key = KeyOutputFormat
       THEN /\ stdout' = Append(stdout,
                 Println(IF cfg.OutputFormat = "" THEN "table" ELSE cfg.OutputFormat))
            /\ pc' = "done" /\ err' = err
       ELSE Fail(ErrUnknownConfigKeyPrefix \o argv.key) /\ stdout' = stdout
  /\ UNCHANGED <<tableVars, updateVars, file, env, argv, store, cfg, out, zoneID, existing, calls>>

ConfigListRunE ==
  /\ pc = "run" /\ argv.cmd = "config list"
  /\ stdout' = Append(stdout,
       WriteTable(out, <<"Key", "Value">>,
         << <<"output_format",
              IF cfg.OutputFormat = "" THEN "table (default)" ELSE cfg.OutputFormat>> >>))
  /\ pc' = "done"
  /\ UNCHANGED <<tableVars, updateVars, file, env, argv, store, cfg, out, zoneID, existing, calls, err>>

\* The characters of the values config set is given that are no format.
FormatChars == "yaml" :> <<121, 97, 109, 108>> @@ "JSON" :> <<74, 83, 79, 78>>

\* config set: the configuration is loaded again, file and environment, the
\* key and the value are checked, and the loaded configuration is saved with
\* the new format.
ConfigSetRunE ==
  /\ pc = "run" /\ argv.cmd = "config set"
  /\ LET existingCfg == Load(file, env) IN
     IF argv.key # KeyOutputFormat
       THEN Fail(ErrUnknownConfigKeyPrefix \o argv.key) /\ UNCHANGED <<file, stdout>>
     ELSE IF argv.value \notin {"table", "json"}
       THEN /\ Fail(ErrInvalidFormatPrefix \o FormatChars[argv.value]
                      \o ErrInvalidFormatSuffix)
            /\ UNCHANGED <<file, stdout>>
     ELSE \E s \in SaveOutcomes :
            IF ~s.ok
              THEN Fail(ErrSaveConfigPrefix \o s.err) /\ UNCHANGED <<file, stdout>>
              ELSE /\ file' = Save([existingCfg EXCEPT !.OutputFormat = argv.value])
                   /\ stdout' = Append(stdout,
                        WriteSuccess(out, "Set output_format = " \o argv.value))
                   /\ pc' = "done" /\ err' = err
  /\ UNCHANGED <<tableVars, updateVars, env, argv, store, cfg, out, zoneID, existing, calls>>

(***************************************************************************)
(* dns commands.                                                           *)
(***************************************************************************)
DnsListRunE ==
  /\ pc = "run" /\ argv.cmd = "dns list"
  /\ IF NewClientErr(cfg) # NoErr
       THEN Fail(NewClientErr(cfg))
       ELSE pc' = "GetZone" /\ err' = err
  /\ UNCHANGED <<tableVars, updateVars, file, env, argv, store, cfg, out, zoneID, existing, calls, stdout>>

DnsFindRunE ==
  /\ pc = "run" /\ argv.cmd = "dns find"
  /\ IF argv.dnsName = "" /\ argv.dnsType = ""
       THEN Fail(ErrFindRequired)
     ELSE IF NewClientErr(cfg) # NoErr
       THEN Fail(NewClientErr(cfg))
     ELSE pc' = "GetZone" /\ err' = err
  /\ UNCHANGED <<tableVars, updateVars, file, env, argv, store, cfg, out, zoneID, existing, calls, stdout>>

\* The arguments of Client.ListDNSRecords(zoneID, recordType, name).
ListDNSRecordsArgs(zid, recordType, name) ==
  [zone |-> zid, type |-> recordType, name |-> name]

FindDNSRecords_NoSwap(zid, name, recordType) ==
  ListDNSRecordsArgs(zid, name, recordType)

\* Client.FindDNSRecords(zoneID, name, recordType): ListDNSRecords with the
\* type before the name.
FindDNSRecords(zid, name, recordType) ==
  ListDNSRecordsArgs(zid, recordType, name)

\* Client.ListDNSRecords, called by dns list directly and by dns find
\* through FindDNSRecords, and the rendering of its result.
DnsListRecords ==
  /\ pc = "resolved" /\ argv.cmd \in {"dns list", "dns find"}
  /\ \E r \in {[ok |-> TRUE, err |-> NoErr]}
              \cup {[ok |-> FALSE, err |-> e] : e \in RecordErrors} :
       LET q == IF argv.cmd = "dns find"
                  THEN FindDNSRecords(zoneID, argv.dnsName, argv.dnsType)
                  ELSE ListDNSRecordsArgs(zoneID, argv.dnsType, argv.dnsName)
           records == MatchingRecords(store, q.zone, q.type, q.name)
       IN
       /\ calls' = Append(calls, [op |-> "ListDNSRecords", zone |-> q.zone,
                                  type |-> q.type, name |-> q.name,
                                  ok |-> r.ok, err |-> r.err])
       /\ IF ~r.ok
            THEN Fail(ErrListPrefix \o r.err) /\ stdout' = stdout
          ELSE /\ pc' = "done" /\ err' = err
               /\ stdout' = Append(stdout,
                    IF Len(records) = 0
                      THEN WriteSuccess(out, IF argv.cmd = "dns list"
                                               THEN "No DNS records found"
                                               ELSE "No matching DNS records found")
                      ELSE writeDNSRecordTable(out, records))
  /\ UNCHANGED <<tableVars, updateVars, file, env, argv, store, cfg, out, zoneID, existing>>

DnsGetRunE ==
  /\ pc = "run" /\ argv.cmd = "dns get"
  /\ IF NewClientErr(cfg) # NoErr
       THEN Fail(NewClientErr(cfg))
       ELSE pc' = "GetZone" /\ err' = err
  /\ UNCHANGED <<tableVars, updateVars, file, env, argv, store, cfg, out, zoneID, existing, calls, stdout>>

DnsUpdateRunE ==
  /\ pc = "run" /\ argv.cmd = "dns update"
  /\ IF NewClientErr(cfg) # NoErr
       THEN Fail(NewClientErr(cfg))
       ELSE pc' = "GetZone" /\ err' = err
  /\ UNCHANGED <<tableVars, updateVars, file, env, argv, store, cfg, out, zoneID, existing, calls, stdout>>

\* dns get and dns create/update render one record.
RenderRecord(w, outputFlag, rec) ==
  IF outputFlag = "json" THEN WriteJSON("object", rec)
  ELSE WriteTable(w, DNSHeaders, <<DNSRow(rec)>>)

\* api.GetDNSRecord: the record of that zone with that identifier, or an error.
GetDNSRecordOutcomes(st, zid, id) ==
  (IF id \in DOMAIN st /\ st[id].ZoneID = zid
     THEN {[ok |-> TRUE, rec |-> toDNSRecord(st[id]), err |-> NoErr]}
     ELSE {})
  \cup {[ok |-> FALSE, rec |-> NoRecord, err |-> e] : e \in RecordErrors}

\* Client.GetDNSRecord; dns get renders the record, dns update keeps it.
DnsGetRecord ==
  /\ pc = "resolved" /\ argv.cmd \in {"dns get", "dns update"}
  /\ \E r \in GetDNSRecordOutcomes(store, zoneID, argv.rec) :
       /\ calls' = Append(calls, [op |-> "GetDNSRecord", zone |-> zoneID,
                                  rec |-> argv.rec, ok |-> r.ok, err |-> r.err,
                                  ret |-> r.rec])
       /\ IF ~r.ok
            THEN Fail(ErrGetPrefix \o r.err) /\ UNCHANGED <<existing, stdout>>
          ELSE IF argv.cmd = "dns get"
            THEN /\ stdout' = Append(stdout, RenderRecord(out, argv.outputFormat, r.rec))
                 /\ pc' = "done"
                 /\ UNCHANGED <<existing, err>>
          ELSE /\ existing' = r.rec
               /\ pc' = "fetched"
               /\ UNCHANGED <<stdout, err>>
  /\ UNCHANGED <<tableVars, updateVars, file, env, argv, store, cfg, out, zoneID>>

\* Variant of MergeUpdateParams that sends proxied from the flag variable
\* whether or not the flag was given.
MergeUpdateParams_AlwaysProxied(ex, a) ==
  [Type     |-> IF "type" \in a.given THEN a.dnsType ELSE ex.Type,
   Name     |-> IF "name" \in a.given THEN a.dnsName ELSE ex.Name,
   Content  |-> IF "content" \in a.given THEN a.dnsContent ELSE ex.Content,
   TTL      |-> IF "ttl" \in a.given THEN Ptr(a.dnsTTL) ELSE NilInt,
   Proxied  |-> Ptr(a.dnsProxied = "true"),
   Priority |-> IF "priority" \in a.given THEN Ptr(a.dnsPriority) ELSE NilInt,
   Comment  |-> NilStr]

\* The update parameters: the fetched type, name and content, overridden by
\* the flags that were given; ttl, proxied and priority only when given.
MergeUpdateParams(ex, a) ==
  [Type     |-> IF "type" \in a.given THEN a.dnsType ELSE ex.Type,
   Name     |-> IF "name" \in a.given THEN a.dnsName ELSE ex.Name,
   Content  |-> IF "content" \in a.given THEN a.dnsContent ELSE ex.Content,
   TTL      |-> IF "ttl" \in a.given THEN Ptr(a.dnsTTL) ELSE NilInt,
   Proxied  |-> IF "proxied" \in a.given THEN Ptr(a.dnsProxied = "true") ELSE NilBool,
   Priority |-> IF "priority" \in a.given THEN Ptr(a.dnsPriority) ELSE NilInt,
   Comment  |-> NilStr]

\* The request Client.UpdateDNSRecord sends.
UpdateRequest(id, p) ==
  [ID |-> id, Type |-> p.Type, Name |-> p.Name, Content |-> p.Content,
   Proxied |-> p.Proxied, Priority |-> p.Priority, Comment |-> p.Comment,
   TTL |-> IF p.TTL.set THEN p.TTL.val ELSE 0]

\* The output of dns create and dns update: the record alone when the
\* --output flag is json, else a status line and a one-row table.
RenderChange(w, outputFlag, verb, rec) ==
  IF outputFlag = "json" THEN <<WriteJSON("object", rec)>>
  ELSE <<WriteSuccess(w, verb \o rec.ID),
         WriteTable(w, DNSHeaders, <<DNSRow(rec)>>)>>

\* dns update after the fetch: merge, validate --proxied, update, render.
DnsUpdateRecord ==
  /\ pc = "fetched"
  /\ IF "proxied" \in argv.given /\ argv.dnsProxied \notin {"true", "false"}
       THEN Fail(ErrProxiedValue) /\ UNCHANGED <<store, calls, stdout>>
     ELSE
       LET req == UpdateRequest(argv.rec, MergeUpdateParams(existing, argv)) IN
       \E r \in (IF argv.rec \in DOMAIN store /\ store[argv.rec].ZoneID = zoneID
                   THEN {[ok |-> TRUE, err |-> NoErr]} ELSE {})
                \cup {[ok |-> FALSE, err |-> e] : e \in RecordErrors} :
         /\ calls' = Append(calls, [op |-> "UpdateDNSRecord", zone |-> zoneID,
                                    rec |-> argv.rec, req |-> req,
                                    ok |-> r.ok, err |-> r.err])
         /\ IF ~r.ok
              THEN Fail(ErrUpdatePrefix \o r.err) /\ UNCHANGED <<store, stdout>>
              ELSE /\ store' = [store EXCEPT ![argv.rec] = ApplyUpdate(@, req)]
                   /\ stdout' = stdout \o RenderChange(out, argv.outputFormat,
                                   "Updated DNS record: ", toDNSRecord(store'[argv.rec]))
                   /\ pc' = "done" /\ err' = err
  /\ UNCHANGED <<tableVars, updateVars, file, env, argv, cfg, out, zoneID, existing>>

\* dns create validates its flags before it creates the client.
DnsCreateRunE ==
  /\ pc = "run" /\ argv.cmd = "dns create"
  /\ IF argv.dnsType = "" \/ argv.dnsName = "" \/ argv.dnsContent = ""
       THEN Fail(ErrCreateRequired)
     ELSE IF argv.dnsProxied # "" /\ argv.dnsProxied \notin {"true", "false"}
       THEN Fail(ErrProxiedValue)
     ELSE IF NewClientErr(cfg) # NoErr
       THEN Fail(NewClientErr(cfg))
     ELSE pc' = "GetZone" /\ err' = err
  /\ UNCHANGED <<tableVars, updateVars, file, env, argv, store, cfg, out, zoneID, existing, calls, stdout>>

\* The parameters dns create passes: priority only when it is above zero.
CreateParams(a) ==
  [Type |-> a.dnsType, Name |-> a.dnsName, Content |-> a.dnsContent,
   TTL |-> a.dnsTTL,
   Proxied |-> IF a.dnsProxied # "" THEN a.dnsProxied = "true" ELSE FALSE,
   Priority |-> IF a.dnsPriority > 0 THEN Ptr(a.dnsPriority) ELSE NilInt,
   Comment |-> ""]

\* Client.CreateDNSRecord and the rendering of the created record.
DnsCreateRecord ==
  /\ pc = "resolved" /\ argv.cmd = "dns create"
  /\ LET p == CreateParams(argv)
         id == FreshID(store)
     IN \E r \in {[ok |-> TRUE, err |-> NoErr]}
                 \cup {[ok |-> FALSE, err |-> e] : e \in RecordErrors} :
          /\ calls' = Append(calls, [op |-> "CreateDNSRecord", zone |-> zoneID,
                                     req |-> [p EXCEPT !.Proxied = Ptr(p.Proxied)],
                                     ok |-> r.ok, err |-> r.err])
          /\ IF ~r.ok
               THEN Fail(ErrCreatePrefix \o r.err) /\ UNCHANGED <<store, stdout>>
               ELSE /\ store' = [i \in DOMAIN store \cup {id} |->
                                   IF i = id
                                     THEN [ID |-> id, ZoneID |-> zoneID, Type |-> p.Type,
                                           Name |-> p.Name, Content |-> p.Content,
                                           TTL |-> p.TTL, Proxied |-> Ptr(p.Proxied),
                                           Priority |-> p.Priority, Comment |-> p.Comment]
                                     ELSE store[i]]
                    /\ stdout' = stdout \o RenderChange(out, argv.outputFormat,
                                    "Created DNS record: ", toDNSRecord(store'[id]))
                    /\ pc' = "done" /\ err' = err
  /\ UNCHANGED <<tableVars, updateVars, file, env, argv, cfg, out, zoneID, existing>>

\* Variant of DnsDeleteRunE that goes to the delete call without resolving
\* the zone.
DnsDeleteRunE_NoResolve ==
  /\ pc = "run" /\ argv.cmd = "dns delete"
  /\ IF NewClientErr(cfg) # NoErr
       THEN Fail(NewClientErr(cfg))
       ELSE pc' = "resolved" /\ err' = err
  /\ UNCHANGED <<tableVars, updateVars, file, env, argv, store, cfg, out, zoneID, existing, calls, stdout>>

DnsDeleteRunE ==
  /\ pc = "run" /\ argv.cmd = "dns delete"
  /\ IF NewClientErr(cfg) # NoErr
       THEN Fail(NewClientErr(cfg))
       ELSE pc' = "GetZone" /\ err' = err
  /\ UNCHANGED <<tableVars, updateVars, file, env, argv, store, cfg, out, zoneID, existing, calls, stdout>>

DnsDeleteRecord_MessageAnyway ==
  /\ pc = "resolved" /\ argv.cmd = "dns delete"
  /\ \E r \in (IF argv.rec \in DOMAIN store /\ store[argv.rec].ZoneID = zoneID
                 THEN {[ok |-> TRUE, err |-> NoErr]} ELSE {})
              \cup {[ok |-> FALSE, err |-> e] : e \in RecordErrors} :
       /\ calls' = Append(calls, [op |-> "DeleteDNSRecord", zone |-> zoneID,
                                  rec |-> argv.rec, ok |-> r.ok, err |-> r.err])
       /\ stdout' = Append(stdout,
            WriteSuccess(out, "Deleted DNS record: " \o argv.rec))
       /\ IF ~r.ok
            THEN Fail(ErrDeletePrefix \o r.err) /\ UNCHANGED store
            ELSE /\ store' = [i \in DOMAIN store \ {argv.rec} |-> store[i]]
                 /\ pc' = "done" /\ err' = err
  /\ UNCHANGED <<tableVars, updateVars, file, env, argv, cfg, out, zoneID, existing>>

\* Client.DeleteDNSRecord and the success message.
DnsDeleteRecord ==
  /\ pc = "resolved" /\ argv.cmd = "dns delete"
  /\ \E r \in (IF argv.rec \in DOMAIN store /\ store[argv.rec].ZoneID = zoneID
                 THEN {[ok |-> TRUE, err |-> NoErr]} ELSE {})
              \cup {[ok |-> FALSE, err |-> e] : e \in RecordErrors} :
       /\ calls' = Append(calls, [op |-> "DeleteDNSRecord", zone |-> zoneID,
                                  rec |-> argv.rec, ok |-> r.ok, err |-> r.err])
       /\ IF ~r.ok
            THEN Fail(ErrDeletePrefix \o r.err) /\ UNCHANGED <<store, stdout>>
            ELSE /\ store' = [i \in DOMAIN store \ {argv.rec} |-> store[i]]
                 /\ stdout' = Append(stdout,
                      WriteSuccess(out, "Deleted DNS record: " \o argv.rec))
                 /\ pc' = "done" /\ err' = err
  /\ UNCHANGED <<tableVars, updateVars, file, env, argv, cfg, out, zoneID, existing>>

(***************************************************************************)
(* End of the command: Execute.                                            *)
(***************************************************************************)
\* Writer.WriteError: the error in the writer's format.
WriteError(w, e) ==
  IF w = "json"
    THEN [fmt |-> "json", shape |-> "object",
          value |-> [status |-> "error", message |-> e]]
    ELSE [fmt |-> "text", shape |-> "line", value |-> TextErrorPrefix \o e]

\* What Execute leaves on the error stream for the error e the command
\* returned: nothing in Execute or in the commands calls WriteError, so the
\* only output is what rootCmd.Execute prints itself for a returned error,
\* the line "Error: <message>" and the usage text, both as plain text.
ExecuteStderr(e) ==
  IF e = NoErr THEN <<>>
  ELSE <<[fmt |-> "text", shape |-> "line", value |-> TextErrorPrefix \o e],
         [fmt |-> "text", shape |-> "usage", value |-> <<>>]>>

\* The exit status Execute ends the process with.
ExecuteExitCode(e) == IF e # NoErr THEN 1 ELSE 0

Next ==
  \/ AuthVerifyRunE
  \/ VerifyToken
  \/ ParseFlags
  \/ PersistentPreRunE
  \/ ZonesGetRunE
  \/ ZonesListRunE
  \/ ZonesList
  \/ GetZoneByID
  \/ GetZoneByName
  \/ ConfigGetRunE
  \/ ConfigListRunE
  \/ DnsListRunE
  \/ DnsFindRunE
  \/ DnsListRecords
  \/ DnsGetRunE
  \/ DnsUpdateRunE
  \/ DnsGetRecord
  \/ DnsUpdateRecord
  \/ DnsCreateRunE
  \/ DnsCreateRecord
  \/ DnsDeleteRunE
  \/ DnsDeleteRecord

Spec == Init /\ [][Next]_vars

(***************************************************************************)
(* The update check beside one command: main starts the check or not, runs *)
(* the command through Execute, and asks for the notice afterwards.        *)
(***************************************************************************)
UpdateInit ==
  /\ file = NoFile /\ env = EmptyEnv
  /\ argv = [BaseArgv EXCEPT !.cmd = "version"]
  /\ store = <<>>
  /\ pc = "main"
  /\ cfg = EmptyConfig /\ out = "" /\ zoneID = <<>> /\ existing = NoRecord
  /\ calls = <<>> /\ stdout = <<>> /\ err = NoErr
  /\ Version \in {Builds[k] : k \in DOMAIN Builds}
  /\ updateMessage = NilChan
  /\ checker = "none"
  /\ latest = NoRelease
  /\ sent = <<>>
  /\ headers = <<>>
  /\ rows = <<>>

\* main, before the command: it starts the update check, or does not.
MainStart ==
  /\ pc = "main"
  /\ pc' \in {"StartUpdateCheck", "Execute"}
  /\ UNCHANGED <<updateVars, cmdVars, stdout, err>>

\* StartUpdateCheck: makes the channel; a development build closes it at
\* once, any other build launches the goroutine.
StartUpdateCheck ==
  /\ pc = "StartUpdateCheck"
  /\ IF Version = VersionDev
       THEN /\ updateMessage' = [MakeChan EXCEPT !.closed = TRUE]
            /\ checker' = "none"
       ELSE /\ updateMessage' = MakeChan
            /\ checker' = "DetectLatest"
  /\ pc' = "Execute"
  /\ UNCHANGED <<Version, latest, sent, cmdVars, stdout, err>>

\* Execute: the command runs and returns its error; an error ends the
\* process with status 1, otherwise Execute returns to main.
Execute ==
  /\ pc = "Execute"
  /\ \E e \in {NoErr, ErrNoCredentials, ErrFindRequired} :
       /\ err' = e
       /\ pc' = IF e # NoErr THEN "exit" ELSE "main.executed"
  /\ UNCHANGED <<updateVars, cmdVars, stdout>>

\* main, after the command's own work: it asks for the notice.
MainAfterExecute ==
  /\ pc = "main.executed"
  /\ pc' = "PrintUpdateMessage"
  /\ UNCHANGED <<updateVars, cmdVars, stdout, err>>

PrintUpdateMessage_NoNilCheck ==
  /\ pc = "PrintUpdateMessage"
  /\ updateMessage.made
  /\ updateMessage.buf # <<>> \/ updateMessage.closed
  /\ IF updateMessage.buf # <<>>
       THEN /\ updateMessage' = [updateMessage EXCEPT !.buf = Tail(@)]
            /\ stdout' = IF Head(updateMessage.buf) # <<>>
                           THEN Append(stdout, FmtPrint(Head(updateMessage.buf)))
                           ELSE stdout
       ELSE UNCHANGED <<updateMessage, stdout>>
  /\ pc' = "exit"
  /\ UNCHANGED <<Version, checker, latest, sent, cmdVars, err>>

\* PrintUpdateMessage: returns at once on the nil channel; otherwise one
\* receive, which waits for a message or for the close, and prints the
\* message received.
PrintUpdateMessage ==
  /\ pc = "PrintUpdateMessage"
  /\ IF ~updateMessage.made
       THEN UNCHANGED <<updateMessage, stdout>>
       ELSE /\ updateMessage.buf # <<>> \/ updateMessage.closed
            /\ IF updateMessage.buf # <<>>
                 THEN /\ updateMessage' = [updateMessage EXCEPT !.buf = Tail(@)]
                      /\ stdout' = IF Head(updateMessage.buf) # <<>>
                                     THEN Append(stdout,
                                            FmtPrint(Head(updateMessage.buf)))
                                     ELSE stdout
                 ELSE UNCHANGED <<updateMessage, stdout>>
  /\ pc' = "exit"
  /\ UNCHANGED <<Version, checker, latest, sent, cmdVars, err>>

\* The goroutine runs as long as the process does (pc # "exit").
\* The goroutine: DetectLatest returns; on an error or no release it is done.
CheckDetectLatest ==
  /\ pc # "exit" /\ checker = "DetectLatest"
  /\ \E r \in DetectLatestOutcomes :
       /\ latest' = r
       /\ checker' = IF r.err # NoErr \/ ~r.found THEN "close" ELSE "compare"
  /\ UNCHANGED <<Version, updateMessage, sent, cmdVars, pc, stdout, err>>

\* The goroutine: both versions are parsed and compared; it goes on to send
\* only when the latest version is greater than the current one.
CheckCompare ==
  /\ pc # "exit" /\ checker = "compare"
  /\ LET currentVersion == NewVersion(Version)
         latestVersion  == NewVersion(latest.version)
     IN checker' = IF ~currentVersion.ok THEN "close"
                   ELSE IF ~latestVersion.ok THEN "close"
                   ELSE IF GreaterThan(latestVersion.segments,
                                       currentVersion.segments)
                     THEN "send"
                   ELSE "close"
  /\ UNCHANGED <<Version, updateMessage, latest, sent, cmdVars, pc, stdout, err>>

\* The goroutine: the send of the notice, possible while the buffer has room.
CheckSend ==
  /\ pc # "exit" /\ checker = "send"
  /\ ~updateMessage.closed
  /\ Len(updateMessage.buf) < updateMessage.cap
  /\ updateMessage' = [updateMessage EXCEPT
                         !.buf = Append(@, UpdateNotice(latest.version))]
  /\ sent' = Append(sent, UpdateNotice(latest.version))
  /\ checker' = "close"
  /\ UNCHANGED <<Version, latest, cmdVars, pc, stdout, err>>

\* The goroutine: the deferred close, on every way out.
CheckClose ==
  /\ pc # "exit" /\ checker = "close"
  /\ updateMessage' = [updateMessage EXCEPT !.closed = TRUE]
  /\ checker' = "exited"
  /\ UNCHANGED <<Version, latest, sent, cmdVars, pc, stdout, err>>

UpdateNext ==
  \/ MainStart
  \/ StartUpdateCheck
  \/ Execute
  \/ MainAfterExecute
  \/ PrintUpdateMessage
  \/ CheckDetectLatest
  \/ CheckCompare
  \/ CheckSend
  \/ CheckClose

\* The goroutine and main are both scheduled as long as they can run; the
\* detection is bounded by its timeout.
UpdateSpec ==
  /\ UpdateInit /\ [][UpdateNext]_vars
  /\ WF_vars(CheckDetectLatest \/ CheckCompare \/ CheckSend \/ CheckClose)
  /\ WF_vars(MainStart \/ StartUpdateCheck \/ Execute \/ MainAfterExecute
               \/ PrintUpdateMessage)

(***************************************************************************)
(* The renderer alone: one WriteTable call on headers and rows of any      *)
(* shape, rows shorter and longer than the headers among them.             *)
(***************************************************************************)
MaxRows == 2

MaxRowLen == 3

\* Sequences over S of length at most n.
SeqsUpTo(S, n) == UNION {[1..k -> S] : k \in 0..n}

TableInit ==
  /\ file = NoFile /\ env = EmptyEnv
  /\ argv = BaseArgv
  /\ store = <<>>
  /\ pc = "WriteTable"
  /\ cfg = EmptyConfig /\ zoneID = <<>> /\ existing = NoRecord
  /\ calls = <<>> /\ stdout = <<>> /\ err = NoErr
  /\ Version = VersionDev /\ updateMessage = NilChan /\ checker = "none"
  /\ latest = NoRelease /\ sent = <<>>
  /\ out \in {"table", "json"}
  /\ headers \in {<<"ID">>, <<"ID", "Type">>, <<"ID", "Type", "TTL">>}
  /\ rows \in SeqsUpTo(SeqsUpTo({"", "1", "abcde"}, MaxRowLen), MaxRows)

\* One call of WriteTable; it returns no error.
CallWriteTable ==
  /\ pc = "WriteTable"
  /\ stdout' = Append(stdout, WriteTableText(out, headers, rows))
  /\ pc' = "done"
  /\ UNCHANGED <<updateVars, cmdVars, err>>

TableNext == CallWriteTable

TableSpec == TableInit /\ [][TableNext]_vars

(***************************************************************************)
(* The configuration and the commands that write it: PersistentPreRunE,    *)
(* config set and auth save over every combination of file values and      *)
(* environment variables.                                                  *)
(***************************************************************************)
\* What the file gives to Load: nothing when it is missing or unreadable
\* (readable = FALSE, whatever it holds); otherwise the fields yaml.Unmarshal
\* decoded, which for a malformed file are any part of them, down to none.
LoadInit ==
  /\ file \in [readable : BOOLEAN,
               content : [APIToken : {"", "ft"}, APIKey : {"", "fk"},
                          APIEmail : {"", "fe"}, OutputFormat : {"", "json"}]]
  /\ env \in {[n \in EnvNames |-> IF n \in S THEN "env:" \o n ELSE ""] :
               S \in SUBSET EnvNames}
  /\ argv \in {[BaseArgv EXCEPT !.cmd = "config list"]}
       \cup {[BaseArgv EXCEPT !.cmd = "config set", !.key = k, !.value = v] :
               k \in {KeyOutputFormat, KeyAPIToken},
               v \in {"table", "json"} \cup DOMAIN FormatChars}
       \cup {[BaseArgv EXCEPT !.cmd = "auth save", !.token = t] :
               t \in {"", "newtoken"}}
  /\ store = <<>>
  /\ pc = "prerun"
  /\ cfg = EmptyConfig /\ out = "" /\ zoneID = <<>> /\ existing = NoRecord
  /\ calls = <<>> /\ stdout = <<>> /\ err = NoErr
  /\ Version = VersionDev /\ updateMessage = NilChan /\ checker = "none"
  /\ latest = NoRelease /\ sent = <<>>
  /\ headers = <<>> /\ rows = <<>>

LoadNext ==
  \/ PersistentPreRunE
  \/ ConfigSetRunE
  \/ AuthSaveRunE
  \/ AuthSaveVerifyToken

LoadSpec == LoadInit /\ [][LoadNext]_vars

(***************************************************************************)
(* Properties of zone resolution.                                          *)
(***************************************************************************)
\* Commands that resolve a zone argument.
ResolvingCmds == {"zones get", "dns list", "dns get", "dns create",
                  "dns update", "dns delete", "dns find"}

ZoneOps == {"ZoneDetails", "ListZones"}

RecordOps == {"ListDNSRecords", "GetDNSRecord", "CreateDNSRecord",
              "UpdateDNSRecord", "DeleteDNSRecord"}

\* The characters 0-9 and a-f.
HexDigits == (48..57) \cup (97..102)

HasIDShape(s) == Len(s) = 32 /\ \A i \in 1..Len(s) : s[i] \in HexDigits

\* The zone calls of the resolution, in order.
ZoneCalls == SelectSeq(calls, LAMBDA c : c.op \in ZoneOps)

\* The resolution has returned to the command.
ResolutionOver ==
  /\ argv.cmd \in ResolvingCmds
  /\ ZoneCalls # <<>>
  /\ pc \in {"resolved", "fetched", "done"}

\* The zone identifier the command got from the resolution: zones get
\* renders the zone, the dns commands keep the identifier.
RenderedZoneID(piece) ==
  CASE piece.shape = "object" -> piece.value.ID
    [] piece.shape = "table" -> piece.value.rows[1][1]
    [] piece.shape = "array" -> piece.value[1]["ID"]

ResolvedID == IF argv.cmd = "zones get" THEN RenderedZoneID(stdout[1]) ELSE zoneID

ResolutionFailed ==
  /\ pc = "done" /\ err # NoErr
  /\ calls # <<>> /\ calls[Len(calls)].op \in ZoneOps

\* C1: a resolution issues a fetch by identifier exactly when the argument
\* is 32 characters of 0-9 and a-f; the fetch is then the first call of the
\* resolution, before any lookup by name, and for every other argument the
\* first call is the lookup by name.
C1_FetchByIDIffIDShape ==
  (argv.cmd \in ResolvingCmds /\ calls # <<>>) =>
    /\ HasIDShape(argv.zone) =>
         calls[1].op = "ZoneDetails" /\ calls[1].arg = argv.zone
    /\ ~HasIDShape(argv.zone) =>
         /\ calls[1].op = "ListZones" /\ calls[1].arg = argv.zone
         /\ \A i \in 1..Len(calls) : calls[i].op # "ZoneDetails"
    /\ \A i \in 1..Len(calls) : calls[i].op = "ZoneDetails" => i = 1

\* A fetch by identifier that failed, followed by the lookup by name.
C1_Witness ==
  /\ argv.cmd = "zones get"
  /\ Len(calls) = 2
  /\ calls[1].op = "ZoneDetails" /\ ~calls[1].ok
  /\ calls[2].op = "ListZones"

\* C2: when the argument has the identifier shape and the fetch by
\* identifier succeeds, the resolution returns the fetched zone's identifier
\* and issues no lookup by name, also when a zone has the argument as name.
C2_FetchedZoneReturned ==
  (ResolutionOver /\ HasIDShape(argv.zone) /\ calls[1].ok) =>
    /\ Len(ZoneCalls) = 1
    /\ ~(pc = "done" /\ err # NoErr /\ Len(calls) = 1)
    /\ ResolvedID = calls[1].ret[1]
    /\ ResolvedID = argv.zone

\* The argument is the first zone's identifier and the second zone's name.
C2_Witness ==
  /\ argv.cmd = "zones get" /\ pc = "done" /\ err = NoErr
  /\ Len(calls) = 1 /\ calls[1].op = "ZoneDetails" /\ calls[1].ok
  /\ \E i \in 1..Len(Zones) : Zones[i].Name = argv.zone /\ Zones[i].ID # argv.zone

\* C3: when the fetch by identifier is skipped or fails, the resolution
\* looks the zone up by name; zero zones give a not-found error naming the
\* argument, one or more give the identifier of the first zone returned.
C3_NameLookupResult ==
  (ResolutionOver /\ ~(calls[1].op = "ZoneDetails" /\ calls[1].ok)) =>
    LET l == ZoneCalls[Len(ZoneCalls)] IN
    /\ l.op = "ListZones" /\ l.arg = argv.zone
    /\ (l.ok /\ l.ret = <<>>) =>
         /\ pc = "done"
         /\ err = ErrZoneNotFoundPrefix \o argv.zone
    /\ (l.ok /\ l.ret # <<>>) =>
         /\ ~ResolutionFailed
         /\ ResolvedID = l.ret[1]

\* The fetch by identifier failed and the lookup by name found a zone.
C3_Witness ==
  /\ ResolutionOver /\ argv.cmd = "zones get" /\ err = NoErr
  /\ Len(calls) = 2 /\ ~calls[1].ok
  /\ calls[2].op = "ListZones" /\ calls[2].ok
  /\ ResolvedID = OtherID

\* The provider errors that are permission errors: they contain 403, or
\* permission, unauthorized or forbidden in some letter case.
PermissionErrors == {PE403, PEForbidden, PEPermission, PEUnauthorized}

CarriesGuidance(e) == Contains(e, GuidanceUseID) /\ Contains(e, GuidanceAllZones)

\* C4 as claimed: when the fetch by identifier or the lookup by name failed
\* with a permission error, the error the resolution returns carries the
\* scoped-token guidance.
C4_EitherPathGuidance ==
  (ResolutionFailed /\ \E i \in 1..Len(calls) :
                         ~calls[i].ok /\ calls[i].err \in PermissionErrors) =>
    CarriesGuidance(err)

\* C4, amended: when the lookup by name fails with a permission error, the
\* error returned carries the scoped-token guidance and the provider's
\* error, and is not the provider's error alone.
C4_NameLookupGuidance ==
  (ResolutionFailed /\ ~calls[Len(calls)].ok
     /\ calls[Len(calls)].op = "ListZones"
     /\ calls[Len(calls)].err \in PermissionErrors) =>
    /\ CarriesGuidance(err)
    /\ Contains(err, calls[Len(calls)].err)
    /\ err # calls[Len(calls)].err

\* The lookup by name failed with "Forbidden".
C4_Witness ==
  /\ ResolutionFailed
  /\ calls[Len(calls)].op = "ListZones"
  /\ calls[Len(calls)].err = PEForbidden
  /\ CarriesGuidance(err)

(***************************************************************************)
(* Properties of the record operations and of the output.                  *)
(***************************************************************************)
LastCall == calls[Len(calls)]

DnsFlags == {"type", "name", "content", "ttl", "proxied", "priority", "comment"}

\* dns update has issued its update call.
UpdateIssued ==
  argv.cmd = "dns update" /\ calls # <<>> /\ LastCall.op = "UpdateDNSRecord"

\* C5: dns update fetches the record before the update call and issues the
\* update only if the fetch succeeded; a flag that was not given overrides
\* nothing: with only --content given the type and name sent are the
\* fetched ones and the record's proxied and priority after the update are
\* the fetched ones.
C5_UpdateMerge ==
  UpdateIssued =>
    LET fetch == calls[Len(calls) - 1]
        after == toDNSRecord(store[argv.rec])
    IN
    /\ Len(calls) >= 2
    /\ fetch.op = "GetDNSRecord" /\ fetch.ok
    /\ fetch.rec = LastCall.rec /\ fetch.zone = LastCall.zone
    /\ "type" \notin argv.given => LastCall.req.Type = fetch.ret.Type
    /\ "name" \notin argv.given => LastCall.req.Name = fetch.ret.Name
    /\ "content" \in argv.given => LastCall.req.Content = argv.dnsContent
    /\ LastCall.ok =>
         /\ "type" \notin argv.given => after.Type = fetch.ret.Type
         /\ "name" \notin argv.given => after.Name = fetch.ret.Name
         /\ "content" \notin argv.given => after.Content = fetch.ret.Content
         /\ "ttl" \notin argv.given => after.TTL = fetch.ret.TTL
         /\ "proxied" \notin argv.given => after.Proxied = fetch.ret.Proxied
         /\ "priority" \notin argv.given => after.Priority = fetch.ret.Priority
         /\ "content" \in argv.given => after.Content = argv.dnsContent

\* An update with only --content given, of a proxied record.
C5_Witness ==
  /\ UpdateIssued /\ LastCall.ok /\ pc = "done"
  /\ argv.given \cap DnsFlags = {"content"}
  /\ store[argv.rec].Content = "c2"
  /\ store[argv.rec].Proxied = Ptr(TRUE)

\* C6: dns update with --comment "" sends an update that clears the
\* record's comment, unless the command fails for want of credentials or
\* on a provider call.
C6_EmptyCommentClears ==
  (pc = "done" /\ argv.cmd = "dns update"
     /\ "comment" \in argv.given /\ argv.comment = "") =>
    \/ err = ErrNoCredentials
    \/ calls # <<>> /\ err # NoErr
    \/ /\ UpdateIssued /\ LastCall.ok
       /\ LastCall.req.Comment = Ptr("")
       /\ store[argv.rec].Comment = ""

\* The output mode of the invocation: the --output flag when given,
\* otherwise the config file's output_format, otherwise table.
ChosenMode ==
  IF "output" \in argv.given
    THEN (IF argv.outputFormat = "json" THEN "json" ELSE "table")
  ELSE IF file.readable /\ file.content.OutputFormat = "json" THEN "json"
  ELSE "table"

SingleEntityCmds == {"zones get", "dns get", "dns create", "dns update"}

\* C7: a single-entity result in structured mode, chosen by flag or by
\* config, is the entity as one JSON object, not wrapped in a list.
C7_SingleEntityObject ==
  (pc = "done" /\ err = NoErr /\ argv.cmd \in SingleEntityCmds
     /\ ChosenMode = "json") =>
    /\ stdout # <<>>
    /\ stdout[Len(stdout)].fmt = "json"
    /\ stdout[Len(stdout)].shape = "object"
    /\ "ID" \in DOMAIN stdout[Len(stdout)].value

\* C8: every piece of output of an invocation is in the chosen mode.
C8_OneModeForAllOutput ==
  \A i \in 1..Len(stdout) :
    stdout[i].fmt = (IF ChosenMode = "json" THEN "json" ELSE "text")

ValidationErrors == {ErrCreateRequired, ErrProxiedValue, ErrFindRequired}

\* C9: a validation error is returned before any provider call is issued.
C9_ValidationBeforeCalls ==
  (pc = "done" /\ err \in ValidationErrors) => calls = <<>>

\* The input validation of the command passes.
ValidationPasses ==
  CASE argv.cmd = "dns create" ->
         /\ argv.dnsType # "" /\ argv.dnsName # "" /\ argv.dnsContent # ""
         /\ argv.dnsProxied \in {"", "true", "false"}
    [] argv.cmd = "dns update" ->
         "proxied" \in argv.given => argv.dnsProxied \in {"true", "false"}
    [] argv.cmd = "dns find" -> argv.dnsName # "" \/ argv.dnsType # ""
    [] OTHER -> TRUE

\* Call i is a zone call that gave the resolution its zone.
ResolvedBy(i) ==
  /\ calls[i].op \in ZoneOps /\ calls[i].ok /\ calls[i].ret # <<>>
  /\ \A j \in 1..(i - 1) : calls[j].op \in ZoneOps /\ ~calls[j].ok

\* C10 as claimed: each record operation resolves the zone, then validates,
\* then invokes the provider: a validation error comes after a successful
\* resolution and before any record call, and no record call is issued
\* before the resolution has succeeded.
C10_ResolveValidateInvoke ==
  /\ (pc = "done" /\ err \in ValidationErrors) =>
       /\ \E i \in 1..Len(calls) : ResolvedBy(i)
       /\ \A i \in 1..Len(calls) : calls[i].op \notin RecordOps
  /\ \A i \in 1..Len(calls) :
       calls[i].op \in RecordOps => \E j \in 1..(i - 1) : ResolvedBy(j)

\* C10, amended: no record call is issued before the zone resolution has
\* succeeded, every record call is made in the resolved zone, and the
\* list, create, update or delete call of the command is issued only when
\* its input validation passes; create and find return their validation
\* errors before the resolution.
C10_ResolveBeforeRecordCalls ==
  /\ \A i \in 1..Len(calls) :
       calls[i].op \in RecordOps =>
         /\ \E j \in 1..(i - 1) :
              ResolvedBy(j) /\ calls[i].zone = calls[j].ret[1]
         /\ calls[i].op # "GetDNSRecord" => ValidationPasses
  /\ (pc = "done" /\ err \in ValidationErrors
        /\ argv.cmd \in {"dns create", "dns find"}) => calls = <<>>

\* dns delete resolved the zone by name and then deleted the record.
C10_Witness ==
  /\ argv.cmd = "dns delete" /\ pc = "done" /\ err = NoErr
  /\ Len(calls) = 2 /\ ResolvedBy(1) /\ calls[2].op = "DeleteDNSRecord"

\* dns create has issued its create call.
CreateIssued ==
  argv.cmd = "dns create" /\ calls # <<>> /\ LastCall.op = "CreateDNSRecord"

\* C11: dns create sends TTL 1 when --ttl is not given, proxied false when
\* --proxied is not given, and a priority exactly when --priority was given
\* on the command line, whatever its value.
C11_CreateDefaults ==
  CreateIssued =>
    /\ "ttl" \notin argv.given => LastCall.req.TTL = 1
    /\ "ttl" \in argv.given => LastCall.req.TTL = argv.dnsTTL
    /\ "proxied" \notin argv.given => LastCall.req.Proxied = Ptr(FALSE)
    /\ LastCall.req.Priority.set <=> "priority" \in argv.given
    /\ "priority" \in argv.given => LastCall.req.Priority.val = argv.dnsPriority

(***************************************************************************)
(* Properties of failures and credentials.                                 *)
(***************************************************************************)
\* The command has returned an error.
CommandFailed == pc = "done" /\ err # NoErr

\* C12: a command failure is written to the error stream in the format of
\* the active output mode, plain text in table mode and the envelope
\* {status: error, message} in structured mode, and the exit status is not
\* zero.
C12_FailureInActiveMode ==
  CommandFailed =>
    /\ ExecuteExitCode(err) # 0
    /\ ExecuteStderr(err) # <<>>
    /\ ExecuteStderr(err)[1] = WriteError(ChosenMode, err)
    /\ \A i \in 1..Len(ExecuteStderr(err)) :
         ExecuteStderr(err)[i].fmt = (IF ChosenMode = "json" THEN "json" ELSE "text")

\* Commands that reach the provider.
ProviderCmds ==
  {"zones list", "zones get", "auth verify", "dns list", "dns find",
   "dns get", "dns create", "dns update", "dns delete"}

\* The loaded configuration holds a token, or both a key and an email.
TokenOrKeyAndEmail ==
  LET c == Load(file, env)
  IN c.APIToken # "" \/ (c.APIKey # "" /\ c.APIEmail # "")

\* The command ended with one of the two "no credentials configured" errors.
CredentialError ==
  /\ Len(err) >= Len(MarkNoCredentials)
  /\ SubSeq(err, 1, Len(MarkNoCredentials)) = MarkNoCredentials

\* C13 as stated: without a token and without both key and email, every
\* command that reaches the provider ends with a credential error and has
\* issued no provider call.
C13_NoCredentialsCredentialError ==
  (argv.cmd \in ProviderCmds /\ ~TokenOrKeyAndEmail) =>
    /\ calls = <<>>
    /\ pc = "done" => CredentialError

\* The command line itself was rejected: an unknown flag, or the flag
\* validation of dns create and dns find.
CommandLineRejected ==
  err \in {ErrUnknownFlagComment, ErrCreateRequired, ErrProxiedValue,
           ErrFindRequired}

\* C13: a credential error ends the command exactly when the configuration
\* holds neither a token nor both key and email; without those credentials
\* no provider call is ever issued and the command fails, with the
\* credential error unless its command line was rejected first.
C13_CredentialGate ==
  argv.cmd \in ProviderCmds =>
    /\ ~TokenOrKeyAndEmail => calls = <<>>
    /\ (pc = "done" /\ ~TokenOrKeyAndEmail) =>
         (CredentialError \/ CommandLineRejected)
    /\ (pc = "done" /\ TokenOrKeyAndEmail) => ~CredentialError
    /\ calls # <<>> => TokenOrKeyAndEmail

\* A key without an email: the command failed with the credential error
\* before any provider call.
C13_Witness ==
  /\ argv.cmd = "dns list" /\ pc = "done"
  /\ Load(file, env).APIKey # "" /\ ~TokenOrKeyAndEmail
  /\ CredentialError /\ calls = <<>>

(***************************************************************************)
(* Properties of the update check.                                         *)
(***************************************************************************)
\* C14: one execution of StartUpdateCheck puts at most one notice on the
\* channel and then closes it, on every path: the development build has
\* the channel closed with no goroutine, the goroutine closes it on every
\* way out and sends nothing after the close, and its send never blocks:
\* where it sends the channel is open and its buffer has room.
C14_AtMostOneNoticeThenClosed ==
  /\ Len(sent) <= 1
  /\ Len(updateMessage.buf) <= 1
  /\ checker = "send" =>
       /\ ~updateMessage.closed
       /\ Len(updateMessage.buf) < updateMessage.cap
  /\ checker = "exited" => updateMessage.closed
  /\ (updateMessage.made /\ Version = VersionDev) =>
       (updateMessage.closed /\ sent = <<>>)
  /\ updateMessage.closed => checker \in {"none", "exited"}

\* The goroutine found a newer version, sent its one notice and closed the
\* channel.
C14_Witness ==
  checker = "exited" /\ Len(sent) = 1 /\ updateMessage.closed

\* PrintUpdateMessage has returned.
PrintReturned == pc = "exit" /\ err = NoErr

\* The notice is on the output.
NoticePrinted == \E i \in 1..Len(stdout) : stdout[i].shape = "notice"

\* C15: PrintUpdateMessage, called after the command's work, always
\* returns, whatever the goroutine does meanwhile and also when
\* StartUpdateCheck was never called; when it has returned it has printed
\* the notice exactly when one was sent, and it has printed at most one.
C15_PrintReturns ==
  /\ (pc = "PrintUpdateMessage") ~> PrintReturned
  /\ [](PrintReturned =>
          /\ NoticePrinted <=> sent # <<>>
          /\ stdout = [i \in 1..Len(sent) |-> FmtPrint(sent[i])])
  /\ []((pc = "PrintUpdateMessage" /\ ~updateMessage.made)
          => ENABLED PrintUpdateMessage)

\* PrintUpdateMessage returned after printing the notice the goroutine sent.
C15_Witness ==
  PrintReturned /\ NoticePrinted /\ checker = "exited"

\* The build and release pairs in which the release is the newer version.
NewerReleases ==
  {<<Builds["1.9"], Releases["1.10"]>>, <<Builds["1.9"], Releases["2.0"]>>,
   <<Builds["v1.10.0"], Releases["2.0"]>>}

\* C16: a notice is sent only when the latest release is strictly newer
\* than the build; a failed check (detection error, no release, a version
\* that does not parse) sends none; a development build has no goroutine;
\* and no step of the goroutine changes the command's error, its exit
\* status, its position or its output.
C16_FailuresSwallowed ==
  /\ [](sent # <<>> => <<Version, latest.version>> \in NewerReleases)
  /\ []((latest.called /\ (latest.err # NoErr \/ ~latest.found))
          => sent = <<>>)
  /\ [](Version = VersionDev => checker = "none")
  /\ [][(checker # "none" /\ checker' # checker) =>
          /\ err' = err
          /\ ExecuteExitCode(err') = ExecuteExitCode(err)
          /\ pc' = pc
          /\ stdout' = stdout]_vars
  /\ [](pc = "exit" => ExecuteExitCode(err) = (IF err = NoErr THEN 0 ELSE 1))

\* The detection failed, the goroutine ended without a notice, and the
\* command ended in success.
C16_Witness ==
  /\ checker = "exited" /\ latest.err # NoErr /\ sent = <<>>
  /\ PrintReturned /\ stdout = <<>>

(***************************************************************************)
(* Properties of the renderer.                                             *)
(***************************************************************************)
\* WriteTable has written the table as text / as JSON.
TextRendered ==
  pc = "done" /\ Len(stdout) = 1 /\ stdout[1].shape = "lines"

JsonRendered ==
  pc = "done" /\ Len(stdout) = 1 /\ stdout[1].fmt = "json"
    /\ stdout[1].shape = "array"

\* The greatest length among the header of column i and the cells the rows
\* have in column i.
ColumnMax(i) ==
  LET lens == {Len(headers[i])}
                \cup {Len(rows[r][i]) : r \in {k \in 1..Len(rows) : i <= Len(rows[k])}}
  IN CHOOSE m \in lens : \A n \in lens : n <= m

\* The position in a line at which column i starts: the columns before it
\* at their widths, two characters between columns.
RECURSIVE ColumnStart(_)
ColumnStart(i) ==
  IF i = 1 THEN 1 ELSE ColumnStart(i - 1) + ColumnMax(i - 1) + 2

\* The position at which column i ends.
ColumnEnd(i) == ColumnStart(i) + ColumnMax(i) - 1

IsBlank(s) == \A i \in 1..Len(s) : SubSeq(s, i, i) = " "

\* The line shows the cell in column i: whole, at the column's start, then
\* spaces up to the column's end, and two spaces before the column.
CellShown(line, i, cell) ==
  /\ Len(line) >= ColumnEnd(i)
  /\ SubSeq(line, ColumnStart(i), ColumnStart(i) + Len(cell) - 1) = cell
  /\ IsBlank(SubSeq(line, ColumnStart(i) + Len(cell), ColumnEnd(i)))
  /\ i > 1 => SubSeq(line, ColumnStart(i) - 2, ColumnStart(i) - 1) = "  "

\* The cells line k prints: the headers on the first line, then of each row
\* the cells that have a column.
PrintedCells(k) ==
  IF k = 1 THEN headers
  ELSE SubSeq(rows[k - 1], 1, Min(Len(rows[k - 1]), Len(headers)))

\* C17: in table mode the header line comes first and one line follows per
\* row; in every line each printed cell stands whole at its column's start
\* and is padded with spaces to the column's width, which is the greatest
\* length among the column's header and cells; columns are two spaces
\* apart, and the line ends with its last printed cell's column.
C17_TableLayout ==
  TextRendered =>
    LET lines == stdout[1].value
    IN /\ Len(lines) = Len(rows) + 1
       /\ \A k \in 1..Len(lines) :
            LET cells == PrintedCells(k)
            IN /\ \A i \in 1..Len(cells) : CellShown(lines[k], i, cells[i])
               /\ Len(lines[k]) = IF Len(cells) = 0 THEN 0
                                  ELSE ColumnEnd(Len(cells))

\* A table in which one column is widened by a cell and another by its
\* header.
C17_Witness ==
  /\ TextRendered
  /\ headers = <<"ID", "Type">>
  /\ rows = <<<<"abcde", "1">>, <<"1", "abcde">>>>
  /\ stdout[1].value = <<"ID     Type ", "abcde  1    ", "1      abcde">>

\* C18: in structured mode WriteTable yields one mapping per row, in row
\* order, from each header that has a cell in the row to that cell; a
\* header past the end of a short row is absent from the row's mapping.
\* Row ["1"] under headers ["ID","Type"] yields {"ID": "1"}.
C18_StructuredRows ==
  JsonRendered =>
    LET result == stdout[1].value
    IN /\ Len(result) = Len(rows)
       /\ \A r \in 1..Len(rows) :
            /\ DOMAIN result[r] =
                 {headers[i] : i \in {k \in 1..Len(headers) : k <= Len(rows[r])}}
            /\ \A i \in 1..Len(headers) :
                 i <= Len(rows[r]) => result[r][headers[i]] = rows[r][i]
       /\ (headers = <<"ID", "Type">> /\ rows = <<<<"1">>>>)
            => result = <<[ID |-> "1"]>>

\* A short row after a full one, rendered in structured mode.
C18_Witness ==
  /\ JsonRendered
  /\ headers = <<"ID", "Type">>
  /\ rows = <<<<"1", "abcde">>, <<"1">>>>
  /\ stdout[1].value = <<[ID |-> "1", Type |-> "abcde"], [ID |-> "1"]>>

\* Rows shorter than the headers.
ShortRows == {r \in 1..Len(rows) : Len(rows[r]) < Len(headers)}

\* C19 as stated: in table mode a short row causes no failure and its line
\* runs over all columns, with an empty padded cell in each missing one.
C19_ShortRowPaddedEmptyCells ==
  TextRendered =>
    /\ err = NoErr
    /\ Len(stdout[1].value) = Len(rows) + 1
    /\ \A r \in ShortRows :
         LET line == stdout[1].value[r + 1]
         IN /\ Len(line) = ColumnEnd(Len(headers))
            /\ \A i \in (Len(rows[r]) + 1)..Len(headers) : CellShown(line, i, "")

\* C19: in table mode a short row causes no failure, and its line holds
\* the row's own cells only, each padded to its column's width: the line
\* ends with the column of the row's last cell, and nothing is printed for
\* the missing columns.  An empty row gives an empty line.
C19_ShortRowOwnCellsOnly ==
  TextRendered =>
    /\ err = NoErr
    /\ Len(stdout[1].value) = Len(rows) + 1
    /\ \A r \in ShortRows :
         LET line == stdout[1].value[r + 1]
         IN /\ Len(line) = IF Len(rows[r]) = 0 THEN 0
                           ELSE ColumnEnd(Len(rows[r]))
            /\ \A i \in 1..Len(rows[r]) : CellShown(line, i, rows[r][i])

\* Row ["1"] under headers ["ID","Type"]: the line is the one cell padded
\* to the width of the first column.
C19_Witness ==
  /\ TextRendered
  /\ headers = <<"ID", "Type">>
  /\ rows = <<<<"1">>>>
  /\ stdout[1].value = <<"ID  Type", "1 ">>

(***************************************************************************)
(* Properties of dns find.                                                 *)
(***************************************************************************)
\* The record calls issued so far.
RecordCalls == SelectSeq(calls, LAMBDA c : c.op \in RecordOps)

\* C20: dns find fails with its validation error, before any provider
\* call, when neither --name nor --type is given; otherwise dns find and
\* dns list issue the same single record call for the same command line,
\* the listing of the resolved zone with --type as the type filter and
\* --name as the name filter, and on success both print the records the
\* provider holds for these filters.
C20_FindIsValidatedList ==
  /\ (argv.cmd = "dns find" /\ pc \notin {"parse", "prerun", "run"}
        /\ argv.dnsName = "" /\ argv.dnsType = "")
       => (pc = "done" /\ err = ErrFindRequired /\ calls = <<>>)
  /\ (argv.cmd = "dns find" /\ err = ErrFindRequired)
       => (argv.dnsName = "" /\ argv.dnsType = "")
  /\ argv.cmd \in {"dns list", "dns find"} =>
       /\ Len(RecordCalls) <= 1
       /\ \A i \in 1..Len(RecordCalls) :
            /\ RecordCalls[i].op = "ListDNSRecords"
            /\ RecordCalls[i].zone = zoneID
            /\ RecordCalls[i].type = argv.dnsType
            /\ RecordCalls[i].name = argv.dnsName
       /\ (pc = "done" /\ err = NoErr) =>
            LET found == MatchingRecords(store, zoneID, argv.dnsType, argv.dnsName)
            IN /\ Len(RecordCalls) = 1
               /\ Len(found) > 0 => stdout = <<writeDNSRecordTable(out, found)>>
               /\ Len(found) = 0 => (Len(stdout) = 1 /\ stdout[1].shape # "table"
                                       /\ stdout[1].shape # "array")

\* dns find --type MX found the two MX records of the zone.
C20_Witness ==
  /\ argv.cmd = "dns find" /\ argv.dnsType = "MX" /\ argv.dnsName = ""
  /\ pc = "done" /\ err = NoErr
  /\ LastCall.op = "ListDNSRecords" /\ LastCall.type = "MX" /\ LastCall.name = ""
  /\ out = "table" /\ Len(stdout) = 1 /\ stdout[1].shape = "table"
  /\ Len(stdout[1].value.rows) = 2

(***************************************************************************)
(* Properties of lists and of dns delete.                                  *)
(***************************************************************************)
ListCmds == {"dns list", "dns find", "zones list"}

\* The list call of the command succeeded and the provider had nothing to
\* return: no zone, or no record of the zone under the filters.
EmptyListResult ==
  /\ argv.cmd \in ListCmds /\ calls # <<>> /\ LastCall.ok
  /\ \/ LastCall.op = "ListAllZones" /\ LastCall.ret = <<>>
     \/ /\ LastCall.op = "ListDNSRecords"
        /\ ~\E id \in DOMAIN store :
              /\ store[id].ZoneID = LastCall.zone
              /\ (LastCall.type = "" \/ store[id].Type = LastCall.type)
              /\ (LastCall.name = "" \/ store[id].Name = LastCall.name)

\* The status messages of the empty lists.
EmptyListMessages ==
  {"No zones found", "No DNS records found", "No matching DNS records found"}

\* C21: a list whose provider call succeeded with zero results ends without
\* an error and with exactly one piece of output, a status message in the
\* format of the writer (a line of text, or the object {status: success,
\* message}); no list ever prints a table without rows.
C21_EmptyListIsSuccess ==
  /\ (pc = "done" /\ EmptyListResult) =>
       /\ err = NoErr
       /\ Len(stdout) = 1
       /\ \E m \in EmptyListMessages :
            stdout[1] =
              IF out = "json"
                THEN [fmt |-> "json", shape |-> "object",
                      value |-> [status |-> "success", message |-> m]]
                ELSE [fmt |-> "text", shape |-> "line", value |-> m]
  /\ argv.cmd \in ListCmds =>
       \A i \in 1..Len(stdout) :
         /\ stdout[i].shape = "table" => Len(stdout[i].value.rows) > 0
         /\ stdout[i].shape = "array" => Len(stdout[i].value) > 0

\* dns find in structured mode found no record of the type asked for.
C21_Witness ==
  /\ argv.cmd = "dns find" /\ argv.dnsType = "TXT" /\ out = "json"
  /\ pc = "done" /\ EmptyListResult
  /\ stdout = <<[fmt |-> "json", shape |-> "object",
                 value |-> [status |-> "success",
                            message |-> "No matching DNS records found"]]>>

\* The delete call of dns delete, once issued.
DeleteCalls == SelectSeq(calls, LAMBDA c : c.op = "DeleteDNSRecord")

\* The success message of dns delete for the identifier on the command line.
DeletedMessage ==
  IF out = "json"
    THEN [fmt |-> "json", shape |-> "object",
          value |-> [status |-> "success",
                     message |-> "Deleted DNS record: " \o argv.rec]]
    ELSE [fmt |-> "text", shape |-> "line",
          value |-> "Deleted DNS record: " \o argv.rec]

\* C22: dns delete prints nothing before its delete call has succeeded; after
\* a successful call it has printed the one success message, which names the
\* identifier given on the command line, and the provider no longer holds
\* the record; when the call fails the command returns an error and prints
\* nothing; and the call for an identifier the provider does not hold fails,
\* so that a second delete of the same identifier fails.
C22_DeleteMessageAfterSuccess ==
  /\ [](argv.cmd = "dns delete" =>
          /\ Len(DeleteCalls) <= 1
          /\ stdout # <<>> => (DeleteCalls # <<>> /\ DeleteCalls[1].ok)
          /\ (DeleteCalls # <<>> /\ DeleteCalls[1].ok) =>
               /\ pc = "done" /\ err = NoErr
               /\ DeleteCalls[1].rec = argv.rec
               /\ stdout = <<DeletedMessage>>
               /\ argv.rec \notin DOMAIN store
          /\ (DeleteCalls # <<>> /\ ~DeleteCalls[1].ok) =>
               (pc = "done" /\ err # NoErr /\ stdout = <<>>))
  /\ [][(argv.cmd = "dns delete" /\ pc = "resolved"
           /\ argv.rec \notin DOMAIN store)
          => (pc' = "done" /\ err' # NoErr /\ stdout' = <<>>
                /\ store' = store)]_vars

\* The record was deleted and the message names it.
C22_Witness ==
  /\ argv.cmd = "dns delete" /\ argv.rec = "r1" /\ out = "table"
  /\ pc = "done" /\ err = NoErr
  /\ DeleteCalls # <<>> /\ DeleteCalls[1].ok
  /\ stdout = <<[fmt |-> "text", shape |-> "line",
                 value |-> "Deleted DNS record: r1"]>>
  /\ "r1" \notin DOMAIN store

(***************************************************************************)
(* Properties of the configuration.                                        *)
(***************************************************************************)
\* What the file supplies for a field: its value when the file was read.
FileValue(field) == IF file.readable THEN file.content[field] ELSE ""

\* The value a credential must load to, given its two variable names.
Precedence(field, cloudflareName, cfName) ==
  IF env[cloudflareName] # "" THEN env[cloudflareName]
  ELSE IF env[cfName] # "" THEN env[cfName]
  ELSE FileValue(field)

\* C23: once the configuration is loaded, each credential holds the
\* CLOUDFLARE_ variable when that is not empty, else the CF_ variable when
\* that is not empty, else the value of the config file; the output format
\* is the file's; and the load raised no error, whether the file was
\* missing, unreadable or malformed.
C23_EnvOverridesFile ==
  pc = "run" =>
    /\ cfg.APIToken = Precedence("APIToken", "CLOUDFLARE_API_TOKEN", "CF_API_TOKEN")
    /\ cfg.APIKey = Precedence("APIKey", "CLOUDFLARE_API_KEY", "CF_API_KEY")
    /\ cfg.APIEmail = Precedence("APIEmail", "CLOUDFLARE_API_EMAIL", "CF_API_EMAIL")
    /\ cfg.OutputFormat = FileValue("OutputFormat")
    /\ err = NoErr

\* Both names of the token are set and the file holds a token too; the key
\* comes from the CF_ name alone, the email from the file.
C23_Witness ==
  /\ pc = "run"
  /\ file.readable /\ file.content.APIToken = "ft" /\ file.content.APIEmail = "fe"
  /\ env["CLOUDFLARE_API_TOKEN"] # "" /\ env["CF_API_TOKEN"] # ""
  /\ env["CLOUDFLARE_API_KEY"] = "" /\ env["CF_API_KEY"] # ""
  /\ env["CLOUDFLARE_API_EMAIL"] = "" /\ env["CF_API_EMAIL"] = ""
  /\ cfg.APIToken = "env:CLOUDFLARE_API_TOKEN"
  /\ cfg.APIKey = "env:CF_API_KEY"
  /\ cfg.APIEmail = "fe"

(***************************************************************************)
(* Zone resolution is not retried.                                         *)
(***************************************************************************)
\* The calls of one operation issued so far.
CallsOf(op) == SelectSeq(calls, LAMBDA c : c.op = op)

\* C24: one zone resolution issues at most one fetch by identifier and at
\* most one lookup by name, whatever the provider answers, the fetch before
\* the lookup; and when the lookup fails with an error that is not a
\* permission error, the command ends with exactly that error.
C24_NoRetry ==
  argv.cmd \in ResolvingCmds =>
    /\ Len(CallsOf("ZoneDetails")) <= 1
    /\ Len(CallsOf("ListZones")) <= 1
    /\ Len(ZoneCalls) = 2 =>
         (ZoneCalls[1].op = "ZoneDetails" /\ ~ZoneCalls[1].ok
            /\ ZoneCalls[2].op = "ListZones")
    /\ (CallsOf("ListZones") # <<>> /\ ~CallsOf("ListZones")[1].ok) =>
         /\ pc = "done"
         /\ LastCall.op = "ListZones"
         /\ LastCall.err \notin PermissionErrors => err = LastCall.err

\* The fetch by identifier failed, the lookup by name timed out, and the
\* command ended with the timeout as its error after these two calls.
C24_Witness ==
  /\ argv.cmd = "dns get" /\ pc = "done"
  /\ Len(calls) = 2
  /\ calls[1].op = "ZoneDetails" /\ ~calls[1].ok
  /\ calls[2].op = "ListZones" /\ calls[2].err = PETimeout
  /\ err = PETimeout

(***************************************************************************)
(* Commands that write the config file.                                    *)
(***************************************************************************)
\* C25: config set changes the file in no way other than setting
\* output_format: a step of config set that ends in an error leaves the file
\* as it was, and the step that succeeds leaves a file whose output_format is
\* the given value and whose api_token, api_key and api_email are what the
\* file held before.
C25_ConfigSetFrame ==
  [][argv.cmd = "config set" =>
       /\ err' # NoErr => file' = file
       /\ (pc = "run" /\ pc' = "done" /\ err' = NoErr) =>
            /\ file'.readable
            /\ file'.content.OutputFormat = argv.value
            /\ file'.content.APIToken = FileValue("APIToken")
            /\ file'.content.APIKey = FileValue("APIKey")
            /\ file'.content.APIEmail = FileValue("APIEmail")]_vars

\* C26: auth save writes the file only after the token passed verification:
\* a step of auth save that ends in an error leaves the file as it was and
\* a failed verification ends in an error; the step that writes the file
\* follows a verification that passed, and leaves a file that holds the
\* given token as api_token and the output_format the file held before.
C26_AuthSaveAfterVerification ==
  [][argv.cmd = "auth save" =>
       /\ err' # NoErr => file' = file
       /\ (calls' # calls /\ ~calls'[Len(calls')].ok) => err' # NoErr
       /\ (pc = "auth save.VerifyToken" /\ pc' = "done" /\ err' = NoErr) =>
            /\ calls'[Len(calls')].ok
            /\ file'.readable
            /\ file'.content.APIToken = argv.token
            /\ file'.content.OutputFormat = FileValue("OutputFormat")]_vars

====
